---- MODULE Spec2Model ----
(***************************************************************************)
(* TLS 1.3 pre-shared keys of s2n-tls (tls/s2n_psk.c): the PSK entity, the *)
(* per-connection PSK list and the reader of the offered identity list.    *)
(*                                                                         *)
(* Memory is modelled explicitly.  A blob is a (data, size, allocated)     *)
(* triple whose data is an address of the heap; the heap maps an address   *)
(* to a cell.  A byte string is represented by its length and the byte it  *)
(* is filled with (val), so identities of 1 and of 65488 bytes cost the    *)
(* same; memcmp over such strings is exact.                                *)
(***************************************************************************)
EXTENDS Integers, Sequences, FiniteSets, TLC

VARIABLES
    psk,        \* the caller's struct s2n_psk (NoPsk: the caller holds none)
    conn,       \* struct s2n_connection: mode, psk_params.psk_list and
                \* psk_params.binder_list_size
    heap,       \* the allocator's memory: address -> cell
    result,     \* the last API call: its name and the s2n_errno it left
    wiped,      \* history: what the last list wipe released (identity, early secret
                \* size), kept until the list has an entry again and grows further
    offered_psk_list,   \* struct s2n_offered_psk_list: the wire data and its read cursor
    offered_psk,        \* the caller's struct s2n_offered_psk, filled by the reader
    entries,    \* history: the identities s2n_offered_psk_list_next has returned
                \* since the list was last at its start, in order
    handshake,  \* conn->handshake and conn->secure: the transcript hash states, the
                \* ClientHello being written (handshake.io), whether the handshake
                \* is a retry, and the PRF algorithm of the negotiated cipher suite
    frame       \* the reader's loop in progress, if any: the caller's loop over
                \* s2n_offered_psk_list_next, or s2n_offered_psk_list_get_index
                \* with its locals psk_list_copy and count

vars == <<psk, conn, heap, result, wiped, offered_psk_list, offered_psk, entries,
          handshake, frame>>

\* What the operations on PSKs and on the PSK list leave alone.
otherVars == <<offered_psk_list, offered_psk, entries, handshake, frame>>

(***************************************************************************)
(* Bounds of the model.                                                    *)
(***************************************************************************)
MaxList == 2        \* longest PSK list explored
MaxWire == 8        \* longest offered identity list read, in bytes
MaxEntries == 2     \* most entries of a well-formed offered identity list

(***************************************************************************)
(* Program constants.                                                      *)
(***************************************************************************)
UINT16_MAX == 65535
UINT16_MOD == UINT16_MAX + 1
S2N_EXTENSION_HEADER_LENGTH == 4
SHA224_DIGEST_LENGTH == 28
SHA256_DIGEST_LENGTH == 32
SHA384_DIGEST_LENGTH == 48

S2N_ERR_OK == "S2N_ERR_OK"
S2N_ERR_NULL == "S2N_ERR_NULL"
S2N_ERR_SAFETY == "S2N_ERR_SAFETY"
S2N_ERR_INVALID_ARGUMENT == "S2N_ERR_INVALID_ARGUMENT"
S2N_ERR_HMAC_INVALID_ALGORITHM == "S2N_ERR_HMAC_INVALID_ALGORITHM"
S2N_ERR_INTEGER_OVERFLOW == "S2N_ERR_INTEGER_OVERFLOW"
S2N_ERR_DUPLICATE_PSK_IDENTITIES == "S2N_ERR_DUPLICATE_PSK_IDENTITIES"
S2N_ERR_OFFERED_PSKS_TOO_LONG == "S2N_ERR_OFFERED_PSKS_TOO_LONG"
S2N_ERR_STUFFER_OUT_OF_DATA == "S2N_ERR_STUFFER_OUT_OF_DATA"
S2N_ERR_BAD_MESSAGE == "S2N_ERR_BAD_MESSAGE"
S2N_ERR_HASH_INVALID_ALGORITHM == "S2N_ERR_HASH_INVALID_ALGORITHM"

S2N_CLIENT == "S2N_CLIENT"
S2N_SERVER == "S2N_SERVER"

S2N_PSK_TYPE_RESUMPTION == "S2N_PSK_TYPE_RESUMPTION"
S2N_PSK_TYPE_EXTERNAL == "S2N_PSK_TYPE_EXTERNAL"

S2N_HMAC_NONE == "S2N_HMAC_NONE"
S2N_HMAC_SHA224 == "S2N_HMAC_SHA224"
S2N_HMAC_SHA256 == "S2N_HMAC_SHA256"
S2N_HMAC_SHA384 == "S2N_HMAC_SHA384"

\* The values of the public enum s2n_psk_hmac, and one value outside it.
S2N_PSK_HMAC_SHA224 == "S2N_PSK_HMAC_SHA224"
S2N_PSK_HMAC_SHA256 == "S2N_PSK_HMAC_SHA256"
S2N_PSK_HMAC_SHA384 == "S2N_PSK_HMAC_SHA384"
S2N_PSK_HMAC_OTHER == "S2N_PSK_HMAC_OTHER"

(***************************************************************************)
(* The allocator and blobs (utils/s2n_mem.c, utils/s2n_blob.c).            *)
(* A cell holds len bytes, all equal to val; the rest of it is zero.       *)
(***************************************************************************)
NULL == 0
NumAddr == 3 * (MaxList + 2)
Addr == 1 .. NumAddr

FreeCell == [used |-> FALSE, val |-> 0, len |-> 0]
EmptyHeap == [a \in Addr |-> FreeCell]
ZeroBlob == [data |-> NULL, size |-> 0, allocated |-> 0]

Min(a, b) == IF a < b THEN a ELSE b

\* malloc: an address not in use.  Which one is the allocator's choice and no
\* caller depends on it; the model takes the lowest.
s2n_alloc_addr(h) == CHOOSE a \in Addr : ~h[a].used /\ \A b \in Addr : b < a => h[b].used

\* s2n_free: zero and release the blob's memory; the blob itself becomes ZeroBlob.
\* The heap afterwards.
s2n_free(h, b) ==
    IF b.data = NULL THEN h ELSE [h EXCEPT ![b.data] = FreeCell]

\* The growing branch of s2n_realloc, a being the new memory: the old bytes are
\* copied to it and the old memory is freed.
s2n_realloc_grow(h, b, size, a) ==
    [heap |-> [x \in Addr |->
                  IF x = a
                  THEN [used |-> TRUE,
                        val |-> IF b.size > 0 THEN h[b.data].val ELSE 0,
                        len |-> IF b.size > 0 THEN Min(h[b.data].len, b.size) ELSE 0]
                  ELSE IF b.allocated > 0 /\ x = b.data THEN FreeCell
                  ELSE h[x]],
     blob |-> [data |-> a, size |-> size, allocated |-> size]]

\* s2n_realloc: size 0 frees; a size within the allocation is set in place (the
\* cut tail is zeroed); otherwise the blob grows into new memory.
s2n_realloc(h, b, size) ==
    IF size = 0 THEN [heap |-> s2n_free(h, b), blob |-> ZeroBlob]
    ELSE IF size <= b.allocated
    THEN [heap |-> IF size < b.size
                   THEN [h EXCEPT ![b.data].len = Min(@, size)]
                   ELSE h,
          blob |-> [b EXCEPT !.size = size]]
    ELSE s2n_realloc_grow(h, b, size, s2n_alloc_addr(h))

\* memcpy of the caller's bytes to the start of the blob r.blob just reallocated
\* (r: what s2n_realloc returned); nothing is copied when there are no bytes.
memcpy_check(r, bytes) ==
    IF bytes.size = 0 THEN r
    ELSE [heap |-> [r.heap EXCEPT ![r.blob.data].val = bytes.val,
                                  ![r.blob.data].len = bytes.size],
          blob |-> r.blob]

\* The bytes a (data, size) pair denotes, as a caller's buffer argument.
BytesOf(h, b) ==
    [null |-> b.data = NULL,
     val |-> IF b.data = NULL THEN 0 ELSE h[b.data].val,
     size |-> b.size]

\* What a reader of the blob sees: its size, the bytes behind it, and whether the
\* memory is still allocated.
View(h, b) ==
    IF b.data = NULL THEN [size |-> b.size, val |-> 0, len |-> 0, used |-> FALSE]
    ELSE [size |-> b.size, val |-> h[b.data].val, len |-> h[b.data].len,
          used |-> h[b.data].used]

\* memcmp(x.data, y.data, n) == 0 for blobs filled with one byte each.
memcmp_equal(h, x, y, n) ==
    \/ n = 0
    \/ /\ x.data # NULL /\ y.data # NULL
       /\ h[x.data].val = h[y.data].val

(***************************************************************************)
(* crypto/s2n_hmac.c: the digest size of an HMAC algorithm.                *)
(***************************************************************************)
s2n_hmac_digest_size(alg) ==
    CASE alg = S2N_HMAC_SHA224 -> [err |-> S2N_ERR_OK, size |-> SHA224_DIGEST_LENGTH]
      [] alg = S2N_HMAC_SHA256 -> [err |-> S2N_ERR_OK, size |-> SHA256_DIGEST_LENGTH]
      [] alg = S2N_HMAC_SHA384 -> [err |-> S2N_ERR_OK, size |-> SHA384_DIGEST_LENGTH]
      [] OTHER -> [err |-> S2N_ERR_HMAC_INVALID_ALGORITHM, size |-> 0]

(***************************************************************************)
(* The PSK entity: struct s2n_psk and its operations.                      *)
(* The early-data configuration of a PSK is opaque here and carries no     *)
(* state of its own.  An operation is written as a chain of steps, each    *)
(* taking what the step before it returned.                                *)
(***************************************************************************)
NoPsk == [null |-> TRUE]

\* struct s2n_psk x = { 0 }
ZeroPsk ==
    [type |-> S2N_PSK_TYPE_RESUMPTION, hmac_alg |-> S2N_HMAC_NONE,
     identity |-> ZeroBlob, secret |-> ZeroBlob, early_secret |-> ZeroBlob]

\* The outcome of an operation on a PSK: the error (S2N_ERR_OK: none), the PSK and
\* the heap as the call leaves them, also when it fails part way.
Res(err, p, h) == [err |-> err, psk |-> p, heap |-> h]

s2n_psk_init(type) ==
    [ZeroPsk EXCEPT !.hmac_alg = S2N_HMAC_SHA256, !.type = type]

\* A caller's (pointer, size) argument: null pointer or size bytes filled with val.
NullBytes(size) == [null |-> TRUE, val |-> 0, size |-> size]
Bytes(val, size) == [null |-> FALSE, val |-> val, size |-> size]

\* psk->identity = r.blob, r being the reallocated and filled blob.
WithIdentity(p, r) == Res(S2N_ERR_OK, [p EXCEPT !.identity = r.blob], r.heap)
WithSecret(p, r) == Res(S2N_ERR_OK, [p EXCEPT !.secret = r.blob], r.heap)
WithEarlySecret(p, r) == Res(S2N_ERR_OK, [p EXCEPT !.early_secret = r.blob], r.heap)

\* s2n_psk_set_identity with the size checked before the pointer.
set_identity_size_first(h, p, identity) ==
    IF p = NoPsk THEN Res(S2N_ERR_NULL, p, h)
    ELSE IF identity.size = 0 THEN Res(S2N_ERR_INVALID_ARGUMENT, p, h)
    ELSE IF identity.null THEN Res(S2N_ERR_NULL, p, h)
    ELSE WithIdentity(p, memcpy_check(s2n_realloc(h, p.identity, identity.size), identity))

s2n_psk_set_identity(h, p, identity) ==
    IF p = NoPsk THEN Res(S2N_ERR_NULL, p, h)
    ELSE IF identity.null THEN Res(S2N_ERR_NULL, p, h)
    ELSE IF identity.size = 0 THEN Res(S2N_ERR_INVALID_ARGUMENT, p, h)
    ELSE WithIdentity(p, memcpy_check(s2n_realloc(h, p.identity, identity.size), identity))

s2n_psk_set_secret(h, p, secret) ==
    IF p = NoPsk THEN Res(S2N_ERR_NULL, p, h)
    ELSE IF secret.null THEN Res(S2N_ERR_NULL, p, h)
    ELSE IF secret.size = 0 THEN Res(S2N_ERR_INVALID_ARGUMENT, p, h)
    ELSE WithSecret(p, memcpy_check(s2n_realloc(h, p.secret, secret.size), secret))

\* s2n_psk_clone, third step: the early secret is reallocated to the original's
\* size and filled with its bytes (r: what s2n_psk_set_secret returned).
clone_early_secret(r, original_psk) ==
    IF r.err # S2N_ERR_OK THEN r
    ELSE WithEarlySecret(r.psk,
             memcpy_check(s2n_realloc(r.heap, r.psk.early_secret,
                                      original_psk.early_secret.size),
                          BytesOf(r.heap, original_psk.early_secret)))

\* s2n_psk_clone, second step: the secret (r: what s2n_psk_set_identity returned).
clone_secret(r, original_psk) ==
    IF r.err # S2N_ERR_OK THEN r
    ELSE clone_early_secret(
             s2n_psk_set_secret(r.heap, r.psk, BytesOf(r.heap, original_psk.secret)),
             original_psk)

\* s2n_psk_clone as a copy of the struct: the clone points to the original's memory.
s2n_psk_clone_shallow(h, new_psk, original_psk) ==
    IF original_psk = NoPsk THEN Res(S2N_ERR_OK, new_psk, h)
    ELSE IF new_psk = NoPsk THEN Res(S2N_ERR_NULL, new_psk, h)
    ELSE IF original_psk.identity.size = 0 \/ original_psk.secret.size = 0
    THEN Res(S2N_ERR_INVALID_ARGUMENT, new_psk, h)
    ELSE Res(S2N_ERR_OK, original_psk, h)

\* s2n_psk_clone(new_psk, original_psk): every field of the original except the
\* blobs, which keep new_psk's own memory and are reallocated to the original's bytes.
s2n_psk_clone(h, new_psk, original_psk) ==
    IF original_psk = NoPsk THEN Res(S2N_ERR_OK, new_psk, h)
    ELSE IF new_psk = NoPsk THEN Res(S2N_ERR_NULL, new_psk, h)
    ELSE clone_secret(
             s2n_psk_set_identity(h,
                 [original_psk EXCEPT !.identity = new_psk.identity,
                                      !.secret = new_psk.secret,
                                      !.early_secret = new_psk.early_secret],
                 BytesOf(h, original_psk.identity)),
             original_psk)

s2n_psk_wipe(h, p) ==
    IF p = NoPsk THEN Res(S2N_ERR_OK, p, h)
    ELSE Res(S2N_ERR_OK,
             [p EXCEPT !.early_secret = ZeroBlob, !.identity = ZeroBlob, !.secret = ZeroBlob],
             s2n_free(s2n_free(s2n_free(h, p.early_secret), p.identity), p.secret))

\* s2n_psk_free(&psk): wipe, then release the object and null the caller's pointer.
s2n_psk_free(h, p) == Res(S2N_ERR_OK, NoPsk, s2n_psk_wipe(h, p).heap)

s2n_psk_set_hmac(p, hmac) ==
    IF p = NoPsk THEN [err |-> S2N_ERR_NULL, psk |-> p]
    ELSE CASE hmac = S2N_PSK_HMAC_SHA224 ->
                  [err |-> S2N_ERR_OK, psk |-> [p EXCEPT !.hmac_alg = S2N_HMAC_SHA224]]
           [] hmac = S2N_PSK_HMAC_SHA256 ->
                  [err |-> S2N_ERR_OK, psk |-> [p EXCEPT !.hmac_alg = S2N_HMAC_SHA256]]
           [] hmac = S2N_PSK_HMAC_SHA384 ->
                  [err |-> S2N_ERR_OK, psk |-> [p EXCEPT !.hmac_alg = S2N_HMAC_SHA384]]
           [] OTHER -> [err |-> S2N_ERR_HMAC_INVALID_ALGORITHM, psk |-> p]

(***************************************************************************)
(* The binder of a PSK.  The key schedule (crypto/s2n_tls13_keys.c) is an  *)
(* external collaborator: its outputs are terms over its inputs.           *)
(***************************************************************************)
AlgIndex(alg) ==
    CASE alg = S2N_HMAC_SHA224 -> 1
      [] alg = S2N_HMAC_SHA256 -> 2
      [] alg = S2N_HMAC_SHA384 -> 3
      [] OTHER -> 0

\* s2n_tls13_derive_binder_key: early secret = HKDF-Extract(0, psk->secret) under the
\* PSK's algorithm, written to psk->early_secret.  The term is coded as a number so
\* that it can sit in a heap cell.
EarlySecretVal(alg, secret) == 100 + 10 * AlgIndex(alg) + secret.val

\* The binder hash of the connection's transcript and partial ClientHello, which are
\* fixed here: a digest of the algorithm's size.
BinderHash(alg) == [size |-> s2n_hmac_digest_size(alg).size, val |-> <<"binder_hash", alg>>]

\* The hash algorithm under an HMAC algorithm (s2n_hmac_hash_alg), and the
\* algorithms whose transcript hash a handshake keeps.
S2N_HASH_NONE == "S2N_HASH_NONE"
S2N_HASH_SHA224 == "S2N_HASH_SHA224"
S2N_HASH_SHA256 == "S2N_HASH_SHA256"
S2N_HASH_SHA384 == "S2N_HASH_SHA384"
HashAlgs == {S2N_HASH_SHA224, S2N_HASH_SHA256, S2N_HASH_SHA384}

s2n_hmac_hash_alg(hmac_alg) ==
    CASE hmac_alg = S2N_HMAC_NONE -> [err |-> S2N_ERR_OK, hash_alg |-> S2N_HASH_NONE]
      [] hmac_alg = S2N_HMAC_SHA224 -> [err |-> S2N_ERR_OK, hash_alg |-> S2N_HASH_SHA224]
      [] hmac_alg = S2N_HMAC_SHA256 -> [err |-> S2N_ERR_OK, hash_alg |-> S2N_HASH_SHA256]
      [] hmac_alg = S2N_HMAC_SHA384 -> [err |-> S2N_ERR_OK, hash_alg |-> S2N_HASH_SHA384]
      [] OTHER -> [err |-> S2N_ERR_HMAC_INVALID_ALGORITHM, hash_alg |-> S2N_HASH_NONE]

\* A hash state is the sequence of what was fed to it.  s2n_handshake_get_hash_state
\* gives the handshake's state for an algorithm it keeps.
s2n_handshake_get_hash_state(hashes, hash_alg) ==
    IF hash_alg \in DOMAIN hashes
    THEN [err |-> S2N_ERR_OK, state |-> hashes[hash_alg]]
    ELSE [err |-> S2N_ERR_HASH_INVALID_ALGORITHM, state |-> <<>>]

s2n_hash_update(state, data) == Append(state, data)

s2n_hash_digest_size(hash_alg) ==
    CASE hash_alg = S2N_HASH_SHA224 -> SHA224_DIGEST_LENGTH
      [] hash_alg = S2N_HASH_SHA256 -> SHA256_DIGEST_LENGTH
      [] hash_alg = S2N_HASH_SHA384 -> SHA384_DIGEST_LENGTH
      [] OTHER -> 0

\* The digest of a hash state into size bytes: the size is the algorithm's.
s2n_hash_digest(hash_alg, state, size) ==
    IF size # s2n_hash_digest_size(hash_alg)
    THEN [err |-> S2N_ERR_SAFETY, size |-> size, val |-> <<>>]
    ELSE [err |-> S2N_ERR_OK, size |-> size, val |-> <<"digest", hash_alg, state>>]

\* The HMAC algorithms a PSK can have.
HmacAlgs == {S2N_HMAC_SHA224, S2N_HMAC_SHA256, S2N_HMAC_SHA384}

\* The ClientHello written so far, as the binder hash sees it: the number of its
\* bytes and the message length its handshake header holds.
PartialClientHello(size, message_length) ==
    [size |-> size, message_length |-> message_length]

\* No blob: a null pointer given for a struct s2n_blob.
NoBlob == [null |-> TRUE]

\* What s2n_psk_calculate_binder_hash returns: the error, the hash states of the
\* handshake as the call leaves them, and the digest written to the output.
HashRes(err, hashes, binder_hash) ==
    [err |-> err, hashes |-> hashes, binder_hash |-> binder_hash]

\* s2n_psk_calculate_binder_hash once the partial ClientHello went into a hash
\* state: hashes are the handshake's states by then, state is the one that was fed.
binder_hash_digest(hashes, hash_alg, state, output_size) ==
    HashRes(s2n_hash_digest(hash_alg, state, output_size).err, hashes,
            s2n_hash_digest(hash_alg, state, output_size))

\* The partial ClientHello fed to the handshake's own hash state.
binder_hash_update_live(hashes, hash_alg, current_hash_state, partial_client_hello, output_size) ==
    binder_hash_digest(
        [hashes EXCEPT ![hash_alg] = s2n_hash_update(@, partial_client_hello)],
        hash_alg, s2n_hash_update(current_hash_state, partial_client_hello), output_size)

\* The partial ClientHello is fed to hash_copy, a copy of the current state.
binder_hash_update(hashes, hash_alg, current_hash_state, partial_client_hello, output_size) ==
    binder_hash_digest(hashes, hash_alg,
                       s2n_hash_update(current_hash_state, partial_client_hello),
                       output_size)

binder_hash_state(hashes, hash_alg, current, partial_client_hello, output_size) ==
    IF current.err # S2N_ERR_OK THEN HashRes(current.err, hashes, NoBlob)
    ELSE binder_hash_update(hashes, hash_alg, current.state, partial_client_hello,
                            output_size)

binder_hash_alg(hashes, alg, partial_client_hello, output_size) ==
    IF alg.err # S2N_ERR_OK THEN HashRes(alg.err, hashes, NoBlob)
    ELSE binder_hash_state(hashes, alg.hash_alg,
                           s2n_handshake_get_hash_state(hashes, alg.hash_alg),
                           partial_client_hello, output_size)

\* s2n_psk_calculate_binder_hash(conn, hmac_alg, partial_client_hello,
\* output_binder_hash): hashes are conn's transcript hash states, output_size the
\* size of the output blob (NULL: no blob).
s2n_psk_calculate_binder_hash(hashes, hmac_alg, partial_client_hello, output_size) ==
    IF partial_client_hello = NoBlob \/ output_size = NULL
    THEN HashRes(S2N_ERR_NULL, hashes, NoBlob)
    ELSE binder_hash_alg(hashes, s2n_hmac_hash_alg(hmac_alg), partial_client_hello,
                         output_size)

\* The key buffers of s2n_psk_calculate_binder as they are in memory when it
\* returns: psk_keys.derive_secret, which holds the binder key, and finished_key.
KeysUnused == [derive_secret |-> "unused", finished_key |-> "unused"]
KeysDerived == [derive_secret |-> "secret", finished_key |-> "secret"]

\* DEFER_CLEANUP(psk_keys, s2n_tls13_keys_free): the secrets of the key schedule are
\* zeroed.  finished_key is no part of psk_keys.
s2n_tls13_keys_free(keys) ==
    [keys EXCEPT !.derive_secret = IF @ = "unused" THEN @ ELSE "zeroed"]

BinderRes(err, p, h, binder, keys) ==
    [err |-> err, psk |-> p, heap |-> h, binder |-> binder, keys |-> keys]

\* s2n_psk_calculate_binder after the early secret has been reallocated (r): the
\* early secret is derived into it, the binder key and the finished key are derived
\* from it, and the binder comes from the finished key and the binder hash.
derive_binder(p, r, early, binder_hash) ==
    BinderRes(S2N_ERR_OK, [p EXCEPT !.early_secret = r.blob],
              memcpy_check(r, Bytes(early, r.blob.size)).heap,
              <<p.hmac_alg, p.type, early, binder_hash.val>>,
              s2n_tls13_keys_free(KeysDerived))

\* s2n_psk_calculate_binder with the early secret always of SHA-256's digest size.
calculate_binder_keys_sha256(h, p, binder_hash, output_size, keys) ==
    IF keys.err # S2N_ERR_OK THEN BinderRes(keys.err, p, h, <<>>, KeysUnused)
    ELSE IF binder_hash.size # keys.size \/ output_size # keys.size
    THEN BinderRes(S2N_ERR_SAFETY, p, h, <<>>, KeysUnused)
    ELSE derive_binder(p, s2n_realloc(h, p.early_secret, SHA256_DIGEST_LENGTH),
                       EarlySecretVal(p.hmac_alg, BytesOf(h, p.secret)), binder_hash)

\* s2n_psk_calculate_binder(psk, binder_hash, output_binder), output_binder being a
\* buffer of output_size bytes and keys the key schedule of the PSK's algorithm.
calculate_binder_keys(h, p, binder_hash, output_size, keys) ==
    IF keys.err # S2N_ERR_OK THEN BinderRes(keys.err, p, h, <<>>, KeysUnused)
    ELSE IF binder_hash.size # keys.size \/ output_size # keys.size
    THEN BinderRes(S2N_ERR_SAFETY, p, h, <<>>, KeysUnused)
    ELSE derive_binder(p, s2n_realloc(h, p.early_secret, keys.size),
                       EarlySecretVal(p.hmac_alg, BytesOf(h, p.secret)), binder_hash)

s2n_psk_calculate_binder(h, p, binder_hash, output_size) ==
    IF p = NoPsk \/ binder_hash = NoBlob \/ output_size = NULL
    THEN BinderRes(S2N_ERR_NULL, p, h, <<>>, KeysUnused)
    ELSE calculate_binder_keys(h, p, binder_hash, output_size,
                               s2n_hmac_digest_size(p.hmac_alg))

\* A candidate binder is the binder it was made from (of), the positions of the
\* bytes in which it differs from that one (flipped) and its size.  Byte i of a
\* candidate differs from byte i of the binder expected:
DiffersAt(expected_binder, binder_to_verify, i) ==
    binder_to_verify.of # expected_binder \/ i \in binder_to_verify.flipped

\* A comparison that stops at the first byte that differs.
RECURSIVE memcmp_until_differs(_, _, _, _)
memcmp_until_differs(expected_binder, binder_to_verify, len, i) ==
    IF i > len THEN [equal |-> TRUE, compared |-> len]
    ELSE IF DiffersAt(expected_binder, binder_to_verify, i)
    THEN [equal |-> FALSE, compared |-> i]
    ELSE memcmp_until_differs(expected_binder, binder_to_verify, len, i + 1)

\* s2n_constant_time_equals: every byte is looked at and the differences are
\* gathered (differs); compared counts the bytes looked at.
RECURSIVE s2n_constant_time_equals(_, _, _, _, _)
s2n_constant_time_equals(expected_binder, binder_to_verify, len, i, differs) ==
    IF i > len THEN [equal |-> ~differs, compared |-> len]
    ELSE s2n_constant_time_equals(expected_binder, binder_to_verify, len, i + 1,
             differs \/ DiffersAt(expected_binder, binder_to_verify, i))

\* What s2n_psk_verify_binder returns: the error, the PSK, the heap and the hash
\* states of the handshake as it leaves them, the key buffers of the binder
\* calculation, and the number of bytes the comparison looked at.
VerifyRes(err, p, h, hashes, keys, compared) ==
    [err |-> err, psk |-> p, heap |-> h, hashes |-> hashes, keys |-> keys,
     compared |-> compared]

\* s2n_tls13_mac_verify(&psk_keys, &expected_binder, binder_to_verify): the two
\* are compared in constant time.
s2n_tls13_mac_verify(expected_binder, binder_to_verify) ==
    s2n_constant_time_equals(expected_binder, binder_to_verify,
                             binder_to_verify.size, 1, FALSE)

\* equal is what the comparison of the expected binder and the candidate said.
mac_verify_result(c, hashes, equal) ==
    VerifyRes(IF equal.equal THEN S2N_ERR_OK ELSE S2N_ERR_BAD_MESSAGE,
              c.psk, c.heap, hashes, c.keys, equal.compared)

\* s2n_psk_verify_binder comparing with a comparison that stops early.
verify_binder_memcmp(c, hashes, binder_to_verify) ==
    IF c.err # S2N_ERR_OK THEN VerifyRes(c.err, c.psk, c.heap, hashes, c.keys, 0)
    ELSE mac_verify_result(c, hashes,
             memcmp_until_differs(c.binder, binder_to_verify, binder_to_verify.size, 1))

\* The end of s2n_psk_verify_binder: the expected binder (c: what
\* s2n_psk_calculate_binder returned) against the candidate.
verify_binder_compare(c, hashes, binder_to_verify) ==
    IF c.err # S2N_ERR_OK THEN VerifyRes(c.err, c.psk, c.heap, hashes, c.keys, 0)
    ELSE mac_verify_result(c, hashes, s2n_tls13_mac_verify(c.binder, binder_to_verify))

\* s2n_psk_verify_binder after the binder hash was calculated (hash).
verify_binder_hash(h, p, binder_to_verify, keys, hash) ==
    IF hash.err # S2N_ERR_OK THEN VerifyRes(hash.err, p, h, hash.hashes, KeysUnused, 0)
    ELSE verify_binder_compare(
             s2n_psk_calculate_binder(h, p, hash.binder_hash, keys.size),
             hash.hashes, binder_to_verify)

\* s2n_psk_verify_binder without the check of the candidate's size.
verify_binder_keys_any_size(h, hashes, p, partial_client_hello, binder_to_verify, keys) ==
    IF keys.err # S2N_ERR_OK THEN VerifyRes(keys.err, p, h, hashes, KeysUnused, 0)
    ELSE verify_binder_hash(h, p, binder_to_verify, keys,
             s2n_psk_calculate_binder_hash(hashes, p.hmac_alg, partial_client_hello,
                                           keys.size))

verify_binder_keys(h, hashes, p, partial_client_hello, binder_to_verify, keys) ==
    IF keys.err # S2N_ERR_OK THEN VerifyRes(keys.err, p, h, hashes, KeysUnused, 0)
    ELSE IF binder_to_verify.size # keys.size
    THEN VerifyRes(S2N_ERR_SAFETY, p, h, hashes, KeysUnused, 0)
    ELSE verify_binder_hash(h, p, binder_to_verify, keys,
             s2n_psk_calculate_binder_hash(hashes, p.hmac_alg, partial_client_hello,
                                           keys.size))

\* s2n_psk_verify_binder(conn, psk, partial_client_hello, binder_to_verify): hashes
\* are conn's transcript hash states.
s2n_psk_verify_binder(h, hashes, p, partial_client_hello, binder_to_verify) ==
    IF p = NoPsk \/ binder_to_verify = NoBlob
    THEN VerifyRes(S2N_ERR_NULL, p, h, hashes, KeysUnused, 0)
    ELSE verify_binder_keys(h, hashes, p, partial_client_hello, binder_to_verify,
                            s2n_hmac_digest_size(p.hmac_alg))

(***************************************************************************)
(* The PSK list of a connection: conn->psk_params.psk_list.                *)
(***************************************************************************)
\* uint32_t arithmetic on 16-bit halves (the model checker's integers are narrower
\* than 2^32): whether a + b carries out of 32 bits, and the 32 bits of the sum.
uint32_carry(a, b) ==
    (a \div UINT16_MOD) + (b \div UINT16_MOD)
        + (((a % UINT16_MOD) + (b % UINT16_MOD)) \div UINT16_MOD) >= UINT16_MOD

uint32_add(a, b) ==
    ((((a \div UINT16_MOD) + (b \div UINT16_MOD)
         + (((a % UINT16_MOD) + (b % UINT16_MOD)) \div UINT16_MOD)) % UINT16_MOD) * UINT16_MOD)
    + (((a % UINT16_MOD) + (b % UINT16_MOD)) % UINT16_MOD)

\* s2n_add_overflow on uint32_t.
s2n_add_overflow(a, b) ==
    IF uint32_carry(a, b) THEN [err |-> S2N_ERR_INTEGER_OVERFLOW, size |-> a]
    ELSE [err |-> S2N_ERR_OK, size |-> uint32_add(a, b)]

\* s2n_psk_offered_psk_size after the identity size has been added (sum), the
\* digest size being binder_size.
add_binder_size(sum, binder_size) ==
    IF sum.err # S2N_ERR_OK THEN sum
    ELSE IF binder_size.err # S2N_ERR_OK THEN [err |-> binder_size.err, size |-> sum.size]
    ELSE s2n_add_overflow(sum.size, binder_size.size)

\* s2n_psk_offered_psk_size without the byte of the binder's size.
offered_psk_size_no_binder_size(p) ==
    add_binder_size(s2n_add_overflow(2 + 4, p.identity.size),
                    s2n_hmac_digest_size(p.hmac_alg))

s2n_psk_offered_psk_size(p) ==
    add_binder_size(s2n_add_overflow(2 + 4 + 1, p.identity.size),
                    s2n_hmac_digest_size(p.hmac_alg))

\* *size += psk_size, with the checks of the loop body.
add_psk_size(size, psk_size) ==
    IF psk_size.err # S2N_ERR_OK THEN [err |-> psk_size.err, size |-> size]
    ELSE s2n_add_overflow(size, psk_size.size)

\* The loop of s2n_psk_parameters_offered_psks_size from index i (1-based) on, the
\* running total being sum.
RECURSIVE offered_psks_size_from(_, _, _)
offered_psks_size_from(psk_list, i, sum) ==
    IF sum.err # S2N_ERR_OK \/ i > Len(psk_list) THEN sum
    ELSE offered_psks_size_from(psk_list, i + 1,
             add_psk_size(sum.size, s2n_psk_offered_psk_size(psk_list[i])))

s2n_psk_parameters_offered_psks_size(psk_list) ==
    offered_psks_size_from(psk_list, 1, [err |-> S2N_ERR_OK, size |-> 2 + 2])

\* The duplicate test on the pointers instead of the bytes.
duplicate_by_pointer(h, existing_psk, input_psk) ==
    /\ existing_psk.identity.size = input_psk.identity.size
    /\ existing_psk.identity.data = input_psk.identity.data

\* The duplicate test on identity and HMAC algorithm together.
duplicate_same_hmac(h, existing_psk, input_psk) ==
    /\ existing_psk.identity.size = input_psk.identity.size
    /\ memcmp_equal(h, existing_psk.identity, input_psk.identity, existing_psk.identity.size)
    /\ existing_psk.hmac_alg = input_psk.hmac_alg

\* The test of the duplicate loop of s2n_connection_append_psk.
duplicate(h, existing_psk, input_psk) ==
    /\ existing_psk.identity.size = input_psk.identity.size
    /\ memcmp_equal(h, existing_psk.identity, input_psk.identity, existing_psk.identity.size)

\* The size guard without the extension header.
offered_psks_fit_no_header(list_size, psk_size) ==
    uint32_add(list_size, psk_size) <= UINT16_MAX

\* The size guard on the PSK to append alone.
offered_psks_fit_psk_only(list_size, psk_size) ==
    uint32_add(psk_size, S2N_EXTENSION_HEADER_LENGTH) <= UINT16_MAX

\* The size guard of s2n_connection_append_psk, in uint32_t arithmetic.
offered_psks_fit(list_size, psk_size) ==
    uint32_add(uint32_add(list_size, psk_size), S2N_EXTENSION_HEADER_LENGTH) <= UINT16_MAX

ConnRes(err, c, h) == [err |-> err, conn |-> c, heap |-> h]

\* The end of s2n_connection_append_psk with the clone inserted before its outcome is
\* looked at.
append_clone_partial(c, new_psk) ==
    ConnRes(IF new_psk.err # S2N_ERR_OK THEN S2N_ERR_INVALID_ARGUMENT ELSE S2N_ERR_OK,
            [c EXCEPT !.psk_list = Append(@, new_psk.psk)], new_psk.heap)

\* The end of s2n_connection_append_psk, new_psk being what s2n_psk_clone returned:
\* a failed clone is wiped (DEFER_CLEANUP), a good one is copied to the end of the
\* array (s2n_array_insert_and_copy).
append_clone(c, new_psk) ==
    IF new_psk.err # S2N_ERR_OK
    THEN ConnRes(S2N_ERR_INVALID_ARGUMENT, c, s2n_psk_wipe(new_psk.heap, new_psk.psk).heap)
    ELSE ConnRes(S2N_ERR_OK, [c EXCEPT !.psk_list = Append(@, new_psk.psk)], new_psk.heap)

\* The client's size check of s2n_connection_append_psk.
offered_psks_check(list_size, psk_size) ==
    IF list_size.err # S2N_ERR_OK THEN list_size.err
    ELSE IF psk_size.err # S2N_ERR_OK THEN psk_size.err
    ELSE IF ~offered_psks_fit(list_size.size, psk_size.size) THEN S2N_ERR_OFFERED_PSKS_TOO_LONG
    ELSE S2N_ERR_OK

\* s2n_connection_append_psk after the duplicate loop, check being the outcome of
\* the size check.
append_checked(h, c, input_psk, check) ==
    IF check # S2N_ERR_OK THEN ConnRes(check, c, h)
    ELSE append_clone(c, s2n_psk_clone(h, ZeroPsk, input_psk))

s2n_connection_append_psk(h, c, input_psk) ==
    IF input_psk = NoPsk THEN ConnRes(S2N_ERR_NULL, c, h)
    ELSE IF \E j \in 1 .. Len(c.psk_list) : duplicate(h, c.psk_list[j], input_psk)
    THEN ConnRes(S2N_ERR_DUPLICATE_PSK_IDENTITIES, c, h)
    ELSE append_checked(h, c, input_psk,
             IF c.mode = S2N_CLIENT
             THEN offered_psks_check(s2n_psk_parameters_offered_psks_size(c.psk_list),
                                     s2n_psk_offered_psk_size(input_psk))
             ELSE S2N_ERR_OK)

\* The loop of s2n_psk_parameters_wipe from index i (1-based) on: the heap after the
\* members i.. have been wiped.
RECURSIVE wipe_from(_, _, _)
wipe_from(h, psk_list, i) ==
    IF i > Len(psk_list) THEN h
    ELSE wipe_from(s2n_psk_wipe(h, psk_list[i]).heap, psk_list, i + 1)

\* s2n_psk_parameters_wipe that frees the array without wiping its members.
parameters_wipe_array_only(h, c) ==
    ConnRes(S2N_ERR_OK, [c EXCEPT !.psk_list = <<>>], h)

\* s2n_psk_parameters_wipe: wipe every member, free the array, init the parameters.
s2n_psk_parameters_wipe(h, c) ==
    ConnRes(S2N_ERR_OK, [c EXCEPT !.psk_list = <<>>, !.binder_list_size = 0],
            wipe_from(h, c.psk_list, 1))

(***************************************************************************)
(* The binder list of a ClientHello.  The ClientHello is written to        *)
(* conn->handshake.io, a stuffer of which the model keeps the number of    *)
(* bytes written, the message length in the handshake header, the length   *)
(* in front of the binder list (0 while it is reserved) and the binders    *)
(* written after it, each with the size written in front of it.            *)
(***************************************************************************)
TLS_HANDSHAKE_HEADER_LENGTH == 4

\* s2n_handshake_finish_header: the length of the message after its header goes into
\* the header.
s2n_handshake_finish_header(io) ==
    [io EXCEPT !.message_length = io.written - TLS_HANDSHAKE_HEADER_LENGTH]

\* s2n_stuffer_wipe_n: the last n bytes written are taken back, the binder list
\* among them.
s2n_stuffer_wipe_n(io, n) ==
    [io EXCEPT !.written = @ - Min(n, @), !.binder_list_length = 0, !.binders = <<>>]

\* s2n_stuffer_reserve_uint16: two bytes are written as a placeholder.
s2n_stuffer_reserve_uint16(io) == [io EXCEPT !.written = @ + 2]

\* s2n_stuffer_write_uint8(out, binder.size) and s2n_stuffer_write(out, &binder).
stuffer_write_binder(io, size, binder) ==
    [io EXCEPT !.written = @ + 1 + size,
               !.binders = Append(@, [size |-> size, binder |-> binder])]

\* s2n_stuffer_write_vector_size: the reservation made when reserved bytes were
\* written gets the number of bytes written since.
s2n_stuffer_write_vector_size(io, reserved) ==
    [io EXCEPT !.binder_list_length = io.written - reserved]

\* binder_hashes[alg] before any hash was calculated.
ZeroHash == [size |-> 0, val |-> <<>>]

\* The evaluation of step on the value of w.
Then(w, step(_)) == CHOOSE r \in {step(x) : x \in {w}} : TRUE

\* What the writer of the binder list has reached: the error, the connection, the
\* heap, the hash states and handshake.io as they are, the binder hashes it keeps
\* by algorithm, and its history: the algorithms for which it called
\* s2n_psk_calculate_binder_hash (hashed) and the lengths it patched (patched), in
\* order.
WriterRes(err, c, h, hashes, io, binder_hashes, hashed, patched) ==
    [err |-> err, conn |-> c, heap |-> h, hashes |-> hashes, io |-> io,
     binder_hashes |-> binder_hashes, hashed |-> hashed, patched |-> patched]

\* s2n_psk_write_binder for member i, b being what s2n_psk_calculate_binder returned: the
\* size of the binder in one byte and the binder go to the output.
write_binder_out(w, i, b) ==
    IF b.err # S2N_ERR_OK THEN [w EXCEPT !.err = b.err]
    ELSE [w EXCEPT !.conn.psk_list[i] = b.psk, !.heap = b.heap,
                   !.io = stuffer_write_binder(@, s2n_hmac_digest_size(b.psk.hmac_alg).size,
                                               b.binder)]

s2n_psk_write_binder(w, i, binder_hash) ==
    Then(s2n_psk_calculate_binder(w.heap, w.conn.psk_list[i], binder_hash, binder_hash.size),
         LAMBDA b : write_binder_out(w, i, b))

\* The binder hash of an algorithm has been calculated (r) and is kept.
binder_hash_kept(w, hmac_alg, r) ==
    IF r.err # S2N_ERR_OK THEN [w EXCEPT !.err = r.err, !.hashes = r.hashes,
                                         !.hashed = Append(@, hmac_alg)]
    ELSE [w EXCEPT !.hashes = r.hashes, !.binder_hashes[hmac_alg] = r.binder_hash,
                   !.hashed = Append(@, hmac_alg)]

\* The binder hash of every member is calculated anew.
binder_hash_for_every_psk(w, hmac_alg, partial_client_hello) ==
    Then(s2n_psk_calculate_binder_hash(w.hashes, hmac_alg, partial_client_hello,
                                       s2n_hmac_digest_size(hmac_alg).size),
         LAMBDA r : binder_hash_kept(w, hmac_alg, r))

\* if (binder_hash->size == 0): the binder hash of the algorithm is calculated when
\* none is kept for it.
binder_hash_for(w, hmac_alg, partial_client_hello) ==
    IF w.binder_hashes[hmac_alg].size # 0 THEN w
    ELSE Then(s2n_psk_calculate_binder_hash(w.hashes, hmac_alg, partial_client_hello,
                                            s2n_hmac_digest_size(hmac_alg).size),
              LAMBDA r : binder_hash_kept(w, hmac_alg, r))

\* The member is written whatever its algorithm.
write_binder_list_psk_no_skip(w, retry, prf_alg, partial_client_hello, i) ==
    Then(binder_hash_for(w, w.conn.psk_list[i].hmac_alg, partial_client_hello),
         LAMBDA x : IF x.err # S2N_ERR_OK THEN x
                    ELSE s2n_psk_write_binder(x, i,
                             x.binder_hashes[x.conn.psk_list[i].hmac_alg]))

\* The body of the loop of s2n_psk_write_binder_list for member i: in a retry a
\* member whose algorithm is not the PRF algorithm of the cipher suite is passed
\* over.
write_binder_list_psk(w, retry, prf_alg, partial_client_hello, i) ==
    IF retry /\ prf_alg # w.conn.psk_list[i].hmac_alg THEN w
    ELSE Then(binder_hash_for(w, w.conn.psk_list[i].hmac_alg, partial_client_hello),
              LAMBDA x : IF x.err # S2N_ERR_OK THEN x
                         ELSE s2n_psk_write_binder(x, i,
                                  x.binder_hashes[x.conn.psk_list[i].hmac_alg]))

RECURSIVE write_binder_list_from(_, _, _, _, _)
write_binder_list_from(w, retry, prf_alg, partial_client_hello, i) ==
    IF w.err # S2N_ERR_OK \/ i > Len(w.conn.psk_list) THEN w
    ELSE Then(write_binder_list_psk(w, retry, prf_alg, partial_client_hello, i),
              LAMBDA x : write_binder_list_from(x, retry, prf_alg,
                                                partial_client_hello, i + 1))

\* The end of s2n_psk_write_binder_list: the size of the binder list goes into the
\* two bytes reserved at first.
write_binder_list_size(w, reserved) ==
    IF w.err # S2N_ERR_OK THEN w
    ELSE [w EXCEPT !.io = s2n_stuffer_write_vector_size(@, reserved),
                   !.patched = Append(@, "binder_list_length")]

\* s2n_psk_write_binder_list(conn, partial_client_hello, out), w being the state
\* in which it is called.
s2n_psk_write_binder_list(w, retry, prf_alg, partial_client_hello) ==
    IF partial_client_hello = NoBlob THEN [w EXCEPT !.err = S2N_ERR_NULL]
    ELSE write_binder_list_size(
             Then([w EXCEPT !.io = s2n_stuffer_reserve_uint16(@)],
                  LAMBDA x : write_binder_list_from(x, retry, prf_alg,
                                                    partial_client_hello, 1)),
             w.io.written + 2)

\* s2n_finish_psk_extension with the message length patched after the binder list
\* was written.
finish_header_last(w, retry, prf_alg, binder_list_size) ==
    Then(s2n_psk_write_binder_list(
             [w EXCEPT !.io = s2n_stuffer_wipe_n(@, binder_list_size)],
             retry, prf_alg,
             PartialClientHello(s2n_stuffer_wipe_n(w.io, binder_list_size).written,
                                w.io.message_length)),
         LAMBDA x : [x EXCEPT !.io = [@ EXCEPT !.message_length =
                                         w.io.written - TLS_HANDSHAKE_HEADER_LENGTH],
                              !.patched = Append(@, "message_length")])

\* s2n_finish_psk_extension when there is a binder list: the header of the message
\* is finished, the space of the binder list is taken back, and the binder list is
\* written over the ClientHello up to there.
finish_binder_list(w, retry, prf_alg, binder_list_size) ==
    Then([w EXCEPT !.io = s2n_stuffer_wipe_n(s2n_handshake_finish_header(@),
                                             binder_list_size),
                   !.patched = Append(@, "message_length")],
         LAMBDA x : s2n_psk_write_binder_list(x, retry, prf_alg,
                        PartialClientHello(x.io.written, x.io.message_length)))

\* s2n_finish_psk_extension(conn): hs is conn->handshake with conn->secure.
s2n_finish_psk_extension(h, c, hs) ==
    IF c.binder_list_size = 0
    THEN WriterRes(S2N_ERR_OK, c, h, hs.hashes, hs.io,
                   [a \in HmacAlgs |-> ZeroHash], <<>>, <<>>)
    ELSE finish_binder_list(WriterRes(S2N_ERR_OK, c, h, hs.hashes, hs.io,
                                      [a \in HmacAlgs |-> ZeroHash], <<>>, <<>>),
                            hs.retry, hs.prf_alg, c.binder_list_size)

\* The ClientHello as it is sent with the pre-shared key extension last (the sending
\* side of the extension, tls/extensions/s2n_client_psk.c): without PSKs nothing is
\* reserved; otherwise the space of the binder list is reserved after the body,
\* two bytes and for each PSK offered one byte and a binder, and its size is
\* recorded.
ClientHelloBodySize == 96

Offered_in_hello(psk_list, retry, prf_alg) ==
    SelectSeq(psk_list, LAMBDA p : ~(retry /\ prf_alg # p.hmac_alg))

RECURSIVE BindersSize(_)
BindersSize(psk_list) ==
    IF psk_list = <<>> THEN 0
    ELSE 1 + s2n_hmac_digest_size(Head(psk_list).hmac_alg).size
           + BindersSize(Tail(psk_list))

s2n_client_psk_send_size(psk_list, retry, prf_alg) ==
    IF psk_list = <<>> THEN 0
    ELSE 2 + BindersSize(Offered_in_hello(psk_list, retry, prf_alg))

(***************************************************************************)
(* The reader of the offered identity list: struct s2n_offered_psk_list    *)
(* holds the wire data in a stuffer (stuffer/s2n_stuffer.c), of which the  *)
(* bytes written and the read cursor matter here.  An identity read from   *)
(* it is a blob pointing into the wire data: data is the position of its   *)
(* first byte (1-based), NULL when there is none.                          *)
(***************************************************************************)
NoList == [null |-> TRUE]

\* No struct s2n_offered_psk: a null pointer given for the output.
NoOfferedPsk == [null |-> TRUE]

ZeroOfferedPsk == [identity |-> [data |-> NULL, size |-> 0]]

s2n_stuffer_data_available(stuffer) == Len(stuffer.data) - stuffer.read_cursor

\* What a stuffer read returns: the error, the stuffer afterwards, the value read.
StufferRes(err, stuffer, value) == [err |-> err, stuffer |-> stuffer, value |-> value]

s2n_stuffer_skip_read(stuffer, n) ==
    IF s2n_stuffer_data_available(stuffer) < n
    THEN StufferRes(S2N_ERR_STUFFER_OUT_OF_DATA, stuffer, NULL)
    ELSE StufferRes(S2N_ERR_OK, [stuffer EXCEPT !.read_cursor = @ + n], NULL)

\* Two bytes in network order.
s2n_stuffer_read_uint16(stuffer) ==
    IF s2n_stuffer_data_available(stuffer) < 2
    THEN StufferRes(S2N_ERR_STUFFER_OUT_OF_DATA, stuffer, 0)
    ELSE StufferRes(S2N_ERR_OK, [stuffer EXCEPT !.read_cursor = @ + 2],
                    (stuffer.data[stuffer.read_cursor + 1] * 256)
                        + stuffer.data[stuffer.read_cursor + 2])

\* A pointer to the next n bytes, which are skipped; NULL when they are not there.
s2n_stuffer_raw_read(stuffer, n) ==
    IF s2n_stuffer_data_available(stuffer) < n
    THEN StufferRes(S2N_ERR_STUFFER_OUT_OF_DATA, stuffer, NULL)
    ELSE StufferRes(S2N_ERR_OK, [stuffer EXCEPT !.read_cursor = @ + n],
                    stuffer.read_cursor + 1)

s2n_stuffer_reread(stuffer) == [stuffer EXCEPT !.read_cursor = 0]

\* What an operation of the reader returns: the error, the list and the caller's
\* struct s2n_offered_psk as the call leaves them.
ReadRes(err, l, p) == [err |-> err, list |-> l, psk |-> p]

s2n_offered_psk_list_has_next(l) ==
    l # NoList /\ s2n_stuffer_data_available(l.wire_data) > 0

\* s2n_offered_psk_list_read_next after the identity has been read (raw: what
\* s2n_stuffer_raw_read returned): the obfuscated ticket age is skipped.
read_next_ticket_age(p, identity_data, identity_size, skip) ==
    IF skip.err # S2N_ERR_OK THEN ReadRes(skip.err, [wire_data |-> skip.stuffer], p)
    ELSE ReadRes(S2N_ERR_OK, [wire_data |-> skip.stuffer],
                 [p EXCEPT !.identity = [data |-> identity_data, size |-> identity_size]])

\* read_next_identity skipping a ticket age of two bytes.
read_next_identity_short_age(p, identity_size, raw) ==
    IF raw.value = NULL THEN ReadRes(S2N_ERR_NULL, [wire_data |-> raw.stuffer], p)
    ELSE read_next_ticket_age(p, raw.value, identity_size,
                              s2n_stuffer_skip_read(raw.stuffer, 2))

read_next_identity(p, identity_size, raw) ==
    IF raw.value = NULL THEN ReadRes(S2N_ERR_NULL, [wire_data |-> raw.stuffer], p)
    ELSE read_next_ticket_age(p, raw.value, identity_size,
                              s2n_stuffer_skip_read(raw.stuffer, 4))

\* s2n_offered_psk_list_read_next after the identity size has been read (size:
\* what s2n_stuffer_read_uint16 returned).
read_next_size(p, size) ==
    IF size.err # S2N_ERR_OK THEN ReadRes(size.err, [wire_data |-> size.stuffer], p)
    ELSE IF ~(size.value > 0) THEN ReadRes(S2N_ERR_SAFETY, [wire_data |-> size.stuffer], p)
    ELSE read_next_identity(p, size.value, s2n_stuffer_raw_read(size.stuffer, size.value))

s2n_offered_psk_list_read_next(l, p) ==
    IF l = NoList THEN ReadRes(S2N_ERR_NULL, l, p)
    ELSE read_next_size(p, s2n_stuffer_read_uint16(l.wire_data))

\* The end of s2n_offered_psk_list_next: any failure of read_next is a bad message.
next_read(r) ==
    IF r.err # S2N_ERR_OK THEN ReadRes(S2N_ERR_BAD_MESSAGE, r.list, r.psk)
    ELSE r

\* s2n_offered_psk_list_next without the test for remaining data.
next_without_has_next(l, p) ==
    IF l = NoList THEN ReadRes(S2N_ERR_NULL, l, p)
    ELSE next_read(s2n_offered_psk_list_read_next(l, ZeroOfferedPsk))

s2n_offered_psk_list_next(l, p) ==
    IF l = NoList THEN ReadRes(S2N_ERR_NULL, l, p)
    ELSE IF ~s2n_offered_psk_list_has_next(l)
    THEN ReadRes(S2N_ERR_STUFFER_OUT_OF_DATA, l, ZeroOfferedPsk)
    ELSE next_read(s2n_offered_psk_list_read_next(l, ZeroOfferedPsk))

s2n_offered_psk_list_reset(l) ==
    IF l = NoList THEN ReadRes(S2N_ERR_NULL, l, NULL)
    ELSE ReadRes(S2N_ERR_OK, [wire_data |-> s2n_stuffer_reread(l.wire_data)], NULL)

\* s2n_offered_psk_list_get_index reading from the list it was given, with no copy.
get_index_in_place(l, r) == ReadRes(r.err, r.list, r.psk)

\* s2n_offered_psk_list_get_index at its return: the caller's list is the one it
\* passed, whatever happened to the copy.
get_index_return(l, r) == ReadRes(r.err, l, r.psk)

RECURSIVE get_index_loop(_, _, _, _)
\* The body of the loop: a failed s2n_offered_psk_list_next ends the call, and the
\* 16-bit count goes up by one.
get_index_next(psk_index, count, r) ==
    IF r.err # S2N_ERR_OK THEN r
    ELSE get_index_loop(r.list, psk_index, r.psk, (count + 1) % UINT16_MOD)

\* while(count <= psk_index) over the copy of the list.
get_index_loop(psk_list_copy, psk_index, p, count) ==
    IF ~(count <= psk_index) THEN ReadRes(S2N_ERR_OK, psk_list_copy, p)
    ELSE get_index_next(psk_index, count, s2n_offered_psk_list_next(psk_list_copy, p))

s2n_offered_psk_list_get_index(l, psk_index, p) ==
    IF l = NoList \/ p = NoOfferedPsk THEN ReadRes(S2N_ERR_NULL, l, p)
    ELSE get_index_return(l,
            get_index_loop(s2n_offered_psk_list_reset([wire_data |-> l.wire_data]).list,
                           psk_index, p, 0))

(***************************************************************************)
(* The loops of the reader, one iteration at a time.  frame is the loop in *)
(* progress: the caller's 'while has_next: next' over its list, or the     *)
(* loop of s2n_offered_psk_list_get_index with the locals psk_list_copy    *)
(* and count.  iterations counts the successful calls of                   *)
(* s2n_offered_psk_list_next of the loop, with no width.                   *)
(***************************************************************************)
NoFrame == [pc |-> "none"]

ReadLoopFrame(start, iterations) ==
    [pc |-> "read_loop", start |-> start, iterations |-> iterations]

GetIndexFrame(psk_list_copy, psk_index, count, iterations) ==
    [pc |-> "get_index", psk_list_copy |-> psk_list_copy, psk_index |-> psk_index,
     count |-> count, iterations |-> iterations]

\* A loop over s2n_offered_psk_list_next that goes on after a failed call.
get_index_unguarded(r) == FALSE

\* GUARD_AS_RESULT(s2n_offered_psk_list_next(&psk_list_copy, psk)): a failed call
\* ends s2n_offered_psk_list_get_index.
get_index_guard(r) == r.err # S2N_ERR_OK

\* while(count <= psk_index), count and psk_index both uint16_t.
get_index_while(count, psk_index) == count <= psk_index

\* count++ on a uint16_t.
get_index_count(count) == (count + 1) % UINT16_MOD

(***************************************************************************)
(* Inputs.                                                                 *)
(***************************************************************************)
DigestSizes == {s2n_hmac_digest_size(a).size : a \in HmacAlgs}
PskHmacs == {S2N_PSK_HMAC_SHA224, S2N_PSK_HMAC_SHA256, S2N_PSK_HMAC_SHA384}

\* Identities given to the list: two of one byte that differ in their byte, and two
\* long ones around the largest identity a client's empty list takes with SHA-256
\* (4 + 4 + 7 + 65488 + 32 = 65535).
ListIdentities == {Bytes(1, 1), Bytes(2, 1), Bytes(1, 65488), Bytes(1, 65489)}
ListSecrets == {Bytes(1, 1)}

\* Byte strings that replace one another in a PSK whose clone sits in the list: the
\* identities have one size, so that the one overwrites the other in place, and a
\* client's list takes one of them with SHA-256 and none with SHA-384.
CloneIdentities == {Bytes(1, 65488), Bytes(2, 65488)}
CloneSecrets == {Bytes(1, 1), Bytes(2, 1)}
CloneHmacs == {S2N_PSK_HMAC_SHA256, S2N_PSK_HMAC_SHA384}

\* Arguments of the entity's setters: null pointers, an empty string, a byte string;
\* every value of s2n_psk_hmac and one outside it.
EntityBytes == {NullBytes(0), NullBytes(1), Bytes(1, 0), Bytes(1, 1)}
EntityHmacs == PskHmacs \cup {S2N_PSK_HMAC_OTHER}

\* The PSKs of a client that writes a binder list: two identities, and two secrets
\* by which their binders are told apart.
WriterIdentities == {Bytes(1, 1), Bytes(2, 1)}
WriterSecrets == {Bytes(1, 1), Bytes(2, 1)}

\* The partial ClientHello given to the binder hash directly.
PartialClientHellos == {PartialClientHello(100, 96)}

\* The positions at which a candidate binder differs from the binder expected: none,
\* the first byte, the last byte of a digest of each size, or two positions.
FewFlips == {{}, {1}}
AllFlips == {{}, {1}, {2, SHA224_DIGEST_LENGTH}}
                \cup {{i} : i \in {SHA224_DIGEST_LENGTH, SHA256_DIGEST_LENGTH,
                                   SHA384_DIGEST_LENGTH}}

\* The handshake of a new connection: nothing is written to handshake.io, and the
\* transcript is empty or, in a retry, holds the first flight.
EmptyIo == [written |-> 0, message_length |-> 0, binder_list_length |-> 0,
            binders |-> <<>>]
NewHandshake(retry, prf_alg) ==
    [hashes |-> [a \in HashAlgs |->
                    IF retry THEN <<"message_hash", "HelloRetryRequest">> ELSE <<>>],
     io |-> EmptyIo, retry |-> retry, prf_alg |-> prf_alg]

\* Wire data of the reader: every byte string of up to MaxWire bytes over a few byte
\* values.  Identity sizes are two bytes, so the sizes 0, 1, 2 and sizes beyond any
\* wire data of this length all occur.
WireBytes == {0, 1, 2}
RECURSIVE WiresOfLen(_)
WiresOfLen(n) ==
    IF n = 0 THEN {<<>>}
    ELSE {Append(w, b) : w \in WiresOfLen(n - 1), b \in WireBytes}
Wires == UNION {WiresOfLen(n) : n \in 0 .. MaxWire}

\* Well-formed offered identity lists: the identities of the entries, each one or
\* two bytes long, and the wire data that encodes them.  An entry is the identity
\* size in two bytes (network order), the identity, and four bytes of obfuscated
\* ticket age.
EntryIdentities == {<<a>> : a \in {1, 2}} \cup {<<a, b>> : a, b \in {1, 2}}

RECURSIVE IdentityLists(_)
IdentityLists(n) ==
    IF n = 0 THEN {<<>>}
    ELSE {Append(l, i) : l \in IdentityLists(n - 1), i \in EntryIdentities}

OfferedIdentities == UNION {IdentityLists(n) : n \in 0 .. MaxEntries}

EncodeEntry(identity) ==
    <<Len(identity) \div 256, Len(identity) % 256>> \o identity \o <<0, 0, 0, 1>>

RECURSIVE Encode(_)
Encode(ids) ==
    IF ids = <<>> THEN <<>> ELSE EncodeEntry(Head(ids)) \o Encode(Tail(ids))

\* The indexes asked of s2n_offered_psk_list_get_index: those of the entries, the
\* first ones past the end, and the largest a uint16_t holds.
Indexes == (0 .. MaxEntries + 1) \cup {UINT16_MAX}

(***************************************************************************)
(* Addresses carry no meaning, and the program never compares or prints    *)
(* one: states are kept up to a renaming of addresses.  After every call   *)
(* the memory in use is renumbered in the order in which the caller's PSK  *)
(* and then the members of the list point to it.                           *)
(***************************************************************************)
PskBlobs(p) == IF p = NoPsk THEN <<>> ELSE <<p.identity, p.secret, p.early_secret>>

RECURSIVE ListBlobs(_)
ListBlobs(psk_list) ==
    IF psk_list = <<>> THEN <<>>
    ELSE PskBlobs(Head(psk_list)) \o ListBlobs(Tail(psk_list))

\* The addresses the blobs from index i on point to, each once, in the order of
\* their first use, after those of seen.
RECURSIVE FirstUses(_, _, _)
FirstUses(blobs, i, seen) ==
    IF i > Len(blobs) THEN seen
    ELSE LET a == blobs[i].data
         IN  IF a = NULL \/ \E n \in DOMAIN seen : seen[n] = a
             THEN FirstUses(blobs, i + 1, seen)
             ELSE FirstUses(blobs, i + 1, Append(seen, a))

\* The addresses of the set left, in ascending order, after those of seen.
RECURSIVE Ascending(_, _)
Ascending(left, seen) ==
    IF left = {} THEN seen
    ELSE LET a == CHOOSE x \in left : \A y \in left : x <= y
         IN  Ascending(left \ {a}, Append(seen, a))

\* The memory in use, in its new order: what is pointed to, then what is in use
\* with no pointer to it.
Renaming(p, c, h) ==
    LET held == FirstUses(PskBlobs(p) \o ListBlobs(c.psk_list), 1, <<>>)
        lost == {a \in Addr : h[a].used /\ \A n \in DOMAIN held : held[n] # a}
    IN  IF lost = {} THEN held ELSE Ascending(lost, held)

RenameBlob(ren, b) ==
    IF b.data = NULL THEN b
    ELSE [b EXCEPT !.data = CHOOSE n \in DOMAIN ren : ren[n] = b.data]

RenamePsk(ren, p) ==
    IF p = NoPsk THEN p
    ELSE [p EXCEPT !.identity = RenameBlob(ren, @),
                   !.secret = RenameBlob(ren, @),
                   !.early_secret = RenameBlob(ren, @)]

RenameHeap(ren, h) ==
    [n \in Addr |-> IF n <= Len(ren) THEN h[ren[n]] ELSE FreeCell]

\* The state a call leaves: the caller's PSK p, the connection c and the heap h,
\* renumbered by ren.
Renamed(ren, p, c, h) ==
    /\ psk' = RenamePsk(ren, p)
    /\ conn' = [c EXCEPT !.psk_list = [i \in DOMAIN c.psk_list |-> RenamePsk(ren, c.psk_list[i])]]
    /\ heap' = RenameHeap(ren, h)

Commit(p, c, h) ==
    IF h = heap /\ p = psk /\ c = conn
    THEN UNCHANGED <<psk, conn, heap>>
    ELSE Renamed(Renaming(p, c, h), p, c, h)

(***************************************************************************)
(* Actions: one per API call.                                              *)
(***************************************************************************)
\* The argument of a call that takes none worth recording.
NoArg == [none |-> TRUE]

Call(name, arg, err) == [call |-> name, arg |-> arg, err |-> err]

\* A call on the caller's PSK returns r.
ReturnPsk(name, arg, r) ==
    /\ Commit(r.psk, conn, r.heap)
    /\ result' = Call(name, arg, r.err)

\* A call on the connection returns r.
ReturnConn(name, arg, r) ==
    /\ Commit(psk, r.conn, r.heap)
    /\ result' = Call(name, arg, r.err)

\* s2n_external_psk_new: allocate the object, s2n_psk_init it.
ExternalPskNew ==
    /\ psk = NoPsk
    /\ Commit(s2n_psk_init(S2N_PSK_TYPE_EXTERNAL), conn, heap)
    /\ result' = Call("s2n_external_psk_new", NoArg, S2N_ERR_OK)
    /\ UNCHANGED <<wiped, otherVars>>

SetIdentity(args) ==
    /\ psk # NoPsk
    /\ \E identity \in args :
          ReturnPsk("s2n_psk_set_identity", identity, s2n_psk_set_identity(heap, psk, identity))
    /\ UNCHANGED <<wiped, otherVars>>

SetSecret(args) ==
    /\ psk # NoPsk
    /\ \E secret \in args :
          ReturnPsk("s2n_psk_set_secret", secret, s2n_psk_set_secret(heap, psk, secret))
    /\ UNCHANGED <<wiped, otherVars>>

\* s2n_psk_set_hmac touches no memory.
ReturnHmac(hmac, r) ==
    /\ Commit(r.psk, conn, heap)
    /\ result' = Call("s2n_psk_set_hmac", [hmac |-> hmac], r.err)

SetHmac(args) ==
    /\ psk # NoPsk
    /\ \E hmac \in args : ReturnHmac(hmac, s2n_psk_set_hmac(psk, hmac))
    /\ UNCHANGED <<wiped, otherVars>>

PskWipe ==
    /\ psk # NoPsk
    /\ ReturnPsk("s2n_psk_wipe", NoArg, s2n_psk_wipe(heap, psk))
    /\ UNCHANGED <<wiped, otherVars>>

PskFree ==
    /\ psk # NoPsk
    /\ ReturnPsk("s2n_psk_free", NoArg, s2n_psk_free(heap, psk))
    /\ UNCHANGED <<wiped, otherVars>>

\* A call that calculates a binder returns: the key buffers it leaves are recorded
\* with its outcome.
ReturnBinder(name, arg, r) ==
    /\ Commit(r.psk, conn, r.heap)
    /\ result' = [call |-> name, arg |-> arg, err |-> r.err, keys |-> r.keys]

\* s2n_psk_calculate_binder on the caller's PSK, with a binder hash and an output
\* buffer of any digest size.
CalculateBinder ==
    /\ psk # NoPsk
    /\ \E alg \in HmacAlgs, output_size \in DigestSizes :
          ReturnBinder("s2n_psk_calculate_binder", NoArg,
                       s2n_psk_calculate_binder(heap, psk, BinderHash(alg), output_size))
    /\ UNCHANGED <<wiped, otherVars>>

\* s2n_psk_calculate_binder_hash(conn, hmac_alg, partial_client_hello, output) with
\* any algorithm, a partial ClientHello or none, and an output blob of any digest
\* size or none.
CalculateBinderHash ==
    /\ \E hmac_alg \in HmacAlgs \cup {S2N_HMAC_NONE},
          partial_client_hello \in PartialClientHellos \cup {NoBlob},
          output_size \in DigestSizes \cup {NULL} :
          /\ handshake' = [handshake EXCEPT !.hashes =
                 s2n_psk_calculate_binder_hash(handshake.hashes, hmac_alg,
                     partial_client_hello, output_size).hashes]
          /\ result' = [call |-> "s2n_psk_calculate_binder_hash",
                 arg |-> [hmac_alg |-> hmac_alg, output_size |-> output_size,
                          partial_client_hello |-> partial_client_hello],
                 err |-> s2n_psk_calculate_binder_hash(handshake.hashes, hmac_alg,
                             partial_client_hello, output_size).err,
                 binder_hash |-> s2n_psk_calculate_binder_hash(handshake.hashes,
                             hmac_alg, partial_client_hello, output_size).binder_hash]
    /\ UNCHANGED <<psk, conn, heap, wiped, offered_psk_list, offered_psk, entries, frame>>

\* The binder s2n_psk_calculate_binder gives for p over the binder hash of the
\* transcript and the partial ClientHello.
ExpectedBinder(h, hashes, p, partial_client_hello) ==
    s2n_psk_calculate_binder(h, p,
        s2n_psk_calculate_binder_hash(hashes, p.hmac_alg, partial_client_hello,
            s2n_hmac_digest_size(p.hmac_alg).size).binder_hash,
        s2n_hmac_digest_size(p.hmac_alg).size).binder

\* s2n_psk_verify_binder has returned r.
ReturnVerify(arg, r) ==
    /\ Commit(r.psk, conn, r.heap)
    /\ handshake' = [handshake EXCEPT !.hashes = r.hashes]
    /\ result' = [call |-> "s2n_psk_verify_binder", arg |-> arg, err |-> r.err,
                  keys |-> r.keys, compared |-> r.compared]

\* s2n_psk_verify_binder on the caller's PSK: the candidate is the expected binder
\* with the bytes at some positions changed, in a buffer of any digest size.
VerifyBinder(flips) ==
    /\ psk # NoPsk
    /\ \E size \in DigestSizes, partial_client_hello \in PartialClientHellos :
        \E flipped \in {f \in flips : f \subseteq 1 .. size} :
          ReturnVerify([size |-> size, flipped |-> flipped],
                       s2n_psk_verify_binder(heap, handshake.hashes, psk,
                           partial_client_hello,
                           [size |-> size, flipped |-> flipped,
                            of |-> ExpectedBinder(heap, handshake.hashes, psk,
                                                  partial_client_hello)]))
    /\ UNCHANGED <<wiped, offered_psk_list, offered_psk, entries, frame>>

\* The list with member i replaced by what s2n_psk_calculate_binder left of it.
ReturnMember(i, r) ==
    /\ Commit(psk, [conn EXCEPT !.psk_list[i] = r.psk], r.heap)
    /\ result' = Call("s2n_psk_write_binder", [member |-> i], r.err)

\* s2n_psk_write_binder for member i of the list: s2n_psk_calculate_binder on the
\* member with the binder hash of its algorithm.  The binder goes to an output
\* stuffer of the caller's, which is no part of this state.
WriteBinder ==
    /\ \E i \in 1 .. Len(conn.psk_list) :
          ReturnMember(i, s2n_psk_calculate_binder(heap, conn.psk_list[i],
                              BinderHash(conn.psk_list[i].hmac_alg),
                              BinderHash(conn.psk_list[i].hmac_alg).size))
    /\ UNCHANGED <<wiped, otherVars>>

\* The model stops growing the list at max.
ReturnAppend(max, r) ==
    /\ Len(r.conn.psk_list) <= max
    /\ ReturnConn("s2n_connection_append_psk", NoArg, r)

\* s2n_connection_append_psk(conn, psk).
AppendPsk(max) ==
    /\ ReturnAppend(max, s2n_connection_append_psk(heap, conn, psk))
    /\ wiped' = IF conn.psk_list = <<>> THEN wiped ELSE {}
    /\ UNCHANGED otherVars

ParametersWipe ==
    /\ ReturnConn("s2n_psk_parameters_wipe", NoArg, s2n_psk_parameters_wipe(heap, conn))
    /\ wiped' = {[identity |-> BytesOf(heap, conn.psk_list[i].identity),
                   early_secret |-> conn.psk_list[i].early_secret.size] :
                      i \in 1 .. Len(conn.psk_list)}
    /\ UNCHANGED otherVars

\* s2n_offered_psk_list_next(&offered_psk_list, &offered_psk).
ReturnRead(name, r) ==
    /\ offered_psk_list' = r.list
    /\ offered_psk' = r.psk
    /\ result' = Call(name, NoArg, r.err)

OfferedPskListNext ==
    /\ ReturnRead("s2n_offered_psk_list_next",
                  s2n_offered_psk_list_next(offered_psk_list, offered_psk))
    /\ entries' = IF result'.err = S2N_ERR_OK
                  THEN Append(entries, offered_psk'.identity)
                  ELSE entries
    /\ UNCHANGED <<psk, conn, heap, wiped, handshake, frame>>

OfferedPskListReset ==
    /\ offered_psk_list' = s2n_offered_psk_list_reset(offered_psk_list).list
    /\ result' = Call("s2n_offered_psk_list_reset", NoArg,
                      s2n_offered_psk_list_reset(offered_psk_list).err)
    /\ entries' = IF result'.err = S2N_ERR_OK THEN <<>> ELSE entries
    /\ UNCHANGED <<psk, conn, heap, wiped, offered_psk, handshake, frame>>

\* s2n_offered_psk_list_get_index(&offered_psk_list, psk_index, &offered_psk).
OfferedPskListGetIndex ==
    \E psk_index \in Indexes :
        /\ offered_psk_list' =
               s2n_offered_psk_list_get_index(offered_psk_list, psk_index, offered_psk).list
        /\ offered_psk' =
               s2n_offered_psk_list_get_index(offered_psk_list, psk_index, offered_psk).psk
        /\ result' = Call("s2n_offered_psk_list_get_index", [psk_index |-> psk_index],
               s2n_offered_psk_list_get_index(offered_psk_list, psk_index, offered_psk).err)
        /\ UNCHANGED <<psk, conn, heap, wiped, entries, handshake, frame>>

\* A caller begins 'while (s2n_offered_psk_list_has_next(&offered_psk_list))' where
\* the list's cursor is.
ReadLoopStart ==
    /\ frame = NoFrame
    /\ offered_psk_list # NoList
    /\ frame' = ReadLoopFrame(offered_psk_list.wire_data.read_cursor, 0)
    /\ UNCHANGED <<psk, conn, heap, result, wiped, offered_psk_list, offered_psk,
                   entries, handshake>>

\* One turn of the caller's loop: the test of has_next and, when it holds, the call
\* of s2n_offered_psk_list_next, whose failure ends the loop.
ReadLoopNext(r) ==
    /\ ReturnRead("s2n_offered_psk_list_next", r)
    /\ entries' = IF r.err = S2N_ERR_OK THEN Append(entries, r.psk.identity) ELSE entries
    /\ frame' = IF r.err = S2N_ERR_OK
                THEN ReadLoopFrame(frame.start, frame.iterations + 1)
                ELSE NoFrame

ReadLoopStep ==
    /\ frame.pc = "read_loop"
    /\ IF ~s2n_offered_psk_list_has_next(offered_psk_list)
       THEN /\ frame' = NoFrame
            /\ UNCHANGED <<result, offered_psk_list, offered_psk, entries>>
       ELSE ReadLoopNext(s2n_offered_psk_list_next(offered_psk_list, offered_psk))
    /\ UNCHANGED <<psk, conn, heap, wiped, handshake>>

\* s2n_offered_psk_list_get_index(&offered_psk_list, psk_index, &offered_psk) up to
\* its loop: the checks of the arguments, the copy of the list, its reset, count = 0.
GetIndexCall ==
    /\ frame = NoFrame
    /\ \E psk_index \in Indexes :
          IF offered_psk_list = NoList \/ offered_psk = NoOfferedPsk
          THEN /\ result' = Call("s2n_offered_psk_list_get_index",
                                 [psk_index |-> psk_index], S2N_ERR_NULL)
               /\ UNCHANGED frame
          ELSE /\ frame' = GetIndexFrame(
                      s2n_offered_psk_list_reset(
                          [wire_data |-> offered_psk_list.wire_data]).list,
                      psk_index, 0, 0)
               /\ UNCHANGED result
    /\ UNCHANGED <<psk, conn, heap, wiped, offered_psk_list, offered_psk, entries,
                   handshake>>

\* The call of s2n_offered_psk_list_next in the loop of get_index and what follows
\* it: the return of its failure, or count++.
GetIndexNext(r) ==
    /\ offered_psk' = r.psk
    /\ IF get_index_guard(r)
       THEN /\ result' = Call("s2n_offered_psk_list_get_index",
                              [psk_index |-> frame.psk_index], r.err)
            /\ frame' = NoFrame
       ELSE /\ frame' = GetIndexFrame(r.list, frame.psk_index,
                                      get_index_count(frame.count),
                                      frame.iterations + 1)
            /\ UNCHANGED result

\* One turn of the loop of s2n_offered_psk_list_get_index: the test of
\* count <= psk_index, then the return of success or one more call of next.
GetIndexStep ==
    /\ frame.pc = "get_index"
    /\ IF ~get_index_while(frame.count, frame.psk_index)
       THEN /\ result' = Call("s2n_offered_psk_list_get_index",
                              [psk_index |-> frame.psk_index], S2N_ERR_OK)
            /\ frame' = NoFrame
            /\ UNCHANGED offered_psk
       ELSE GetIndexNext(s2n_offered_psk_list_next(frame.psk_list_copy, offered_psk))
    /\ UNCHANGED <<psk, conn, heap, wiped, offered_psk_list, entries, handshake>>

\* The caller resets its list between two loops.
ResetBetweenLoops ==
    /\ frame = NoFrame
    /\ OfferedPskListReset

\* The client writes its ClientHello to handshake.io, the space of the binder list
\* at its end.
ClientHelloSend ==
    /\ conn.mode = S2N_CLIENT
    /\ conn' = [conn EXCEPT !.binder_list_size =
                    s2n_client_psk_send_size(conn.psk_list, handshake.retry,
                                             handshake.prf_alg)]
    /\ handshake' = [handshake EXCEPT !.io =
                        [EmptyIo EXCEPT !.written =
                            TLS_HANDSHAKE_HEADER_LENGTH + ClientHelloBodySize
                              + s2n_client_psk_send_size(conn.psk_list, handshake.retry,
                                                         handshake.prf_alg)]]
    /\ result' = Call("s2n_client_hello_send", NoArg, S2N_ERR_OK)
    /\ UNCHANGED <<psk, heap, wiped, offered_psk_list, offered_psk, entries, frame>>

\* s2n_finish_psk_extension has returned r: the history of the run is recorded with
\* its outcome.
ReturnFinish(r) ==
    /\ Commit(psk, r.conn, r.heap)
    /\ handshake' = [handshake EXCEPT !.hashes = r.hashes, !.io = r.io]
    /\ result' = [call |-> "s2n_finish_psk_extension", arg |-> NoArg, err |-> r.err,
                  hashed |-> r.hashed, patched |-> r.patched]

\* s2n_finish_psk_extension(conn), called once for a ClientHello: when the header
\* of the message is not finished yet.
FinishPskExtension ==
    /\ handshake.io.message_length = 0
    /\ \E r \in {s2n_finish_psk_extension(heap, conn, handshake)} : ReturnFinish(r)
    /\ UNCHANGED <<wiped, offered_psk_list, offered_psk, entries, frame>>

(***************************************************************************)
(* Specifications.                                                         *)
(***************************************************************************)
Init ==
    /\ psk = NoPsk
    /\ conn \in {[mode |-> m, psk_list |-> <<>>, binder_list_size |-> 0] : m \in {S2N_CLIENT, S2N_SERVER}}
    /\ heap = EmptyHeap
    /\ result = Call("s2n_connection_new", NoArg, S2N_ERR_OK)
    /\ wiped = {}
    /\ offered_psk_list = [wire_data |-> [data |-> <<>>, read_cursor |-> 0]]
    /\ offered_psk = ZeroOfferedPsk
    /\ entries = <<>>
    /\ frame = NoFrame
    /\ handshake = NewHandshake(FALSE, S2N_HMAC_SHA256)

\* The PSK list of a connection fed by one caller's PSK.
NextList ==
    \/ ExternalPskNew
    \/ SetIdentity(ListIdentities)
    \/ SetSecret(ListSecrets)
    \/ SetHmac(PskHmacs)
    \/ PskFree
    \/ AppendPsk(MaxList)
    \/ ParametersWipe

SpecList == Init /\ [][NextList]_vars

\* A caller's PSK, its clones in the list, and what either side does afterwards.
NextClone ==
    \/ ExternalPskNew
    \/ SetIdentity(CloneIdentities)
    \/ SetSecret(CloneSecrets)
    \/ SetHmac(CloneHmacs)
    \/ PskWipe
    \/ PskFree
    \/ WriteBinder
    \/ AppendPsk(MaxList)
    \/ ParametersWipe

SpecClone == Init /\ [][NextClone]_vars

\* The PSK entity: every operation on the caller's PSK and on its clone in the list.
NextPsk ==
    \/ ExternalPskNew
    \/ SetIdentity(EntityBytes)
    \/ SetSecret(EntityBytes)
    \/ SetHmac(EntityHmacs)
    \/ PskWipe
    \/ PskFree
    \/ CalculateBinder
    \/ VerifyBinder(FewFlips)
    \/ WriteBinder
    \/ AppendPsk(MaxList)

SpecPsk == Init /\ [][NextPsk]_vars

\* The binder list of a client: PSKs of any algorithm are appended, the ClientHello
\* is sent and its pre-shared key extension finished, in a first handshake or in a
\* retry whose cipher suite has either PRF algorithm.
InitWriter ==
    /\ psk = NoPsk
    /\ conn = [mode |-> S2N_CLIENT, psk_list |-> <<>>, binder_list_size |-> 0]
    /\ heap = EmptyHeap
    /\ result = Call("s2n_connection_new", NoArg, S2N_ERR_OK)
    /\ wiped = {}
    /\ offered_psk_list = [wire_data |-> [data |-> <<>>, read_cursor |-> 0]]
    /\ offered_psk = ZeroOfferedPsk
    /\ entries = <<>>
    /\ frame = NoFrame
    /\ handshake \in {NewHandshake(FALSE, S2N_HMAC_SHA256),
                      NewHandshake(TRUE, S2N_HMAC_SHA256),
                      NewHandshake(TRUE, S2N_HMAC_SHA384)}

NextWriter ==
    \/ ExternalPskNew
    \/ SetIdentity(WriterIdentities)
    \/ SetSecret(WriterSecrets)
    \/ SetHmac(PskHmacs)
    \/ AppendPsk(MaxList)
    \/ ClientHelloSend
    \/ FinishPskExtension

SpecWriter == InitWriter /\ [][NextWriter]_vars

\* Binders: the caller's PSK with any secret and algorithm, in a first handshake or
\* a retry, whose binder is calculated and verified against every candidate.
InitBinder ==
    /\ psk = NoPsk
    /\ conn = [mode |-> S2N_SERVER, psk_list |-> <<>>, binder_list_size |-> 0]
    /\ heap = EmptyHeap
    /\ result = Call("s2n_connection_new", NoArg, S2N_ERR_OK)
    /\ wiped = {}
    /\ offered_psk_list = [wire_data |-> [data |-> <<>>, read_cursor |-> 0]]
    /\ offered_psk = ZeroOfferedPsk
    /\ entries = <<>>
    /\ frame = NoFrame
    /\ handshake \in {NewHandshake(retry, S2N_HMAC_SHA256) : retry \in BOOLEAN}

NextBinder ==
    \/ ExternalPskNew
    \/ SetSecret(CloneSecrets)
    \/ SetHmac(EntityHmacs)
    \/ CalculateBinderHash
    \/ CalculateBinder
    \/ VerifyBinder(AllFlips)

SpecBinder == InitBinder /\ [][NextBinder]_vars

\* The reader over wire data a peer sent: the list starts at the beginning of any
\* byte string, and the caller's struct holds nothing or what an earlier read left.
InitReader ==
    /\ psk = NoPsk
    /\ conn = [mode |-> S2N_SERVER, psk_list |-> <<>>, binder_list_size |-> 0]
    /\ heap = EmptyHeap
    /\ result = Call("s2n_connection_new", NoArg, S2N_ERR_OK)
    /\ wiped = {}
    /\ offered_psk_list \in {[wire_data |-> [data |-> w, read_cursor |-> 0]] : w \in Wires}
    /\ offered_psk \in {ZeroOfferedPsk, [identity |-> [data |-> 3, size |-> 1]]}
    /\ entries = <<>>
    /\ frame = NoFrame
    /\ handshake = NewHandshake(FALSE, S2N_HMAC_SHA256)

NextReader ==
    \/ OfferedPskListNext
    \/ OfferedPskListReset

SpecReader == InitReader /\ [][NextReader]_vars

\* The reader over a well-formed offered identity list, read in sequence, reset and
\* read by index.
InitEntries ==
    /\ psk = NoPsk
    /\ conn = [mode |-> S2N_SERVER, psk_list |-> <<>>, binder_list_size |-> 0]
    /\ heap = EmptyHeap
    /\ result = Call("s2n_connection_new", NoArg, S2N_ERR_OK)
    /\ wiped = {}
    /\ offered_psk_list \in {[wire_data |-> [data |-> Encode(ids), read_cursor |-> 0]] :
                                ids \in OfferedIdentities}
    /\ offered_psk = ZeroOfferedPsk
    /\ entries = <<>>
    /\ frame = NoFrame
    /\ handshake = NewHandshake(FALSE, S2N_HMAC_SHA256)

NextEntries ==
    \/ OfferedPskListNext
    \/ OfferedPskListReset
    \/ OfferedPskListGetIndex

SpecEntries == InitEntries /\ [][NextEntries]_vars

\* The loops of the reader over wire data a peer sent, whole entries and then a well
\* formed end or a malformed one: a caller reads the list to its end, resets it, and
\* reads entries by index.  A loop that has begun goes on: the thread that runs it is
\* not stopped.
LoopIdentities == {<<1>>, <<1, 2>>}

RECURSIVE LoopLists(_)
LoopLists(n) ==
    IF n = 0 THEN {<<>>}
    ELSE LoopLists(n - 1) \cup {Append(l, i) : l \in LoopLists(n - 1), i \in LoopIdentities}

\* What follows the last whole entry: nothing, one byte where the identity size
\* should be, an identity size of zero, an identity longer than the data left, and
\* an obfuscated ticket age cut short.
LoopTails == {<<>>, <<1>>, <<0, 0>>, <<0, 2, 1>>, <<0, 1, 1, 0, 0>>}

LoopWires == {Encode(ids) \o tail : ids \in LoopLists(MaxEntries), tail \in LoopTails}

InitLoops ==
    /\ psk = NoPsk
    /\ conn = [mode |-> S2N_SERVER, psk_list |-> <<>>, binder_list_size |-> 0]
    /\ heap = EmptyHeap
    /\ result = Call("s2n_connection_new", NoArg, S2N_ERR_OK)
    /\ wiped = {}
    /\ offered_psk_list \in {[wire_data |-> [data |-> w, read_cursor |-> 0]] :
                                w \in LoopWires}
    /\ offered_psk = ZeroOfferedPsk
    /\ entries = <<>>
    /\ frame = NoFrame
    /\ handshake = NewHandshake(FALSE, S2N_HMAC_SHA256)

NextLoops ==
    \/ ReadLoopStart
    \/ ReadLoopStep
    \/ GetIndexCall
    \/ GetIndexStep
    \/ ResetBetweenLoops

SpecLoops ==
    InitLoops /\ [][NextLoops]_vars /\ WF_vars(ReadLoopStep) /\ WF_vars(GetIndexStep)

(***************************************************************************)
(* What an observer sees of the state, whatever the addresses.             *)
(***************************************************************************)
\* A PSK as its reader sees it: its fields and the bytes behind its blobs.
MemberView(h, p) ==
    [type |-> p.type, hmac_alg |-> p.hmac_alg,
     identity |-> View(h, p.identity),
     secret |-> View(h, p.secret),
     early_secret |-> View(h, p.early_secret)]

ListView == [i \in DOMAIN conn.psk_list |-> MemberView(heap, conn.psk_list[i])]

PskView == IF psk = NoPsk THEN NoPsk ELSE MemberView(heap, psk)

\* The serialized size of one entry and of a list, as the sum of
\* RFC 8446 section 4.2.11 over plain integers.
EntryWireSize(p) == 2 + p.identity.size + 4 + 1 + s2n_hmac_digest_size(p.hmac_alg).size

RECURSIVE SumOfEntries(_)
SumOfEntries(l) ==
    IF l = <<>> THEN 0 ELSE EntryWireSize(Head(l)) + SumOfEntries(Tail(l))

ClosedFormSize(l) == 2 + 2 + SumOfEntries(l)

\* The step is a call of s2n_connection_append_psk(conn, psk).
AppendStep == result'.call = "s2n_connection_append_psk"

\* The caller's PSK has the identity of a member of the list.
IdentityInList ==
    \E j \in 1 .. Len(conn.psk_list) :
        BytesOf(heap, conn.psk_list[j].identity) = BytesOf(heap, psk.identity)

HasIdentity == psk # NoPsk /\ psk.identity.size > 0
HasSecret == psk # NoPsk /\ psk.secret.size > 0

\* What the extension would take with the caller's PSK added to the list.
ProspectiveSize ==
    ClosedFormSize(conn.psk_list) + EntryWireSize(psk) + S2N_EXTENSION_HEADER_LENGTH

\* The number of cells in use, and of those the members of a list point to.
UsedCells(h) == Cardinality({a \in Addr : h[a].used})
MemberCells(l) == Cardinality({ListBlobs(l)[n].data : n \in DOMAIN ListBlobs(l)} \ {NULL})

(***************************************************************************)
(* The PSK list (SpecList).                                                *)
(***************************************************************************)
\* C1: in every reachable state of a connection, client or server, no two entries
\* of its PSK list have byte-identical identities.
C1_NoDuplicateIdentities ==
    \A i, j \in 1 .. Len(conn.psk_list) :
        i # j => BytesOf(heap, conn.psk_list[i].identity)
                     # BytesOf(heap, conn.psk_list[j].identity)

\* Two entries whose identities have one size and differ in their bytes.
C1_Witness ==
    /\ Len(conn.psk_list) >= 2
    /\ conn.psk_list[1].identity.size = conn.psk_list[2].identity.size
    /\ result.call = "s2n_connection_append_psk"
    /\ result.err = S2N_ERR_OK

\* C2: an append of a PSK whose identity byte-equals the identity of an entry of the
\* list returns S2N_ERR_DUPLICATE_PSK_IDENTITIES and leaves the length of the list
\* unchanged, in either mode and whatever the PSK's secret, algorithm or size.
C2_DuplicateRejected ==
    [][(AppendStep /\ psk # NoPsk /\ IdentityInList)
          => /\ result'.err = S2N_ERR_DUPLICATE_PSK_IDENTITIES
             /\ Len(conn'.psk_list) = Len(conn.psk_list)]_vars

\* A duplicate was rejected on a server although the PSK differs from the entry in
\* its algorithm.
C2_Witness ==
    /\ result.call = "s2n_connection_append_psk"
    /\ result.err = S2N_ERR_DUPLICATE_PSK_IDENTITIES
    /\ conn.mode = S2N_SERVER
    /\ \E j \in 1 .. Len(conn.psk_list) :
          /\ BytesOf(heap, conn.psk_list[j].identity) = BytesOf(heap, psk.identity)
          /\ conn.psk_list[j].hmac_alg # psk.hmac_alg

\* C3: a failed append, whatever the failure, leaves the list with the same entries,
\* in the same order and with the same contents; it also leaves no memory behind.
C3_AppendAtomic ==
    [][(AppendStep /\ result'.err # S2N_ERR_OK)
          => /\ ListView' = ListView
             /\ UsedCells(heap') = UsedCells(heap)]_vars

\* An append failed in the clone (the PSK has an identity and no secret) with
\* entries in the list.
C3_Witness ==
    /\ result.call = "s2n_connection_append_psk"
    /\ result.err = S2N_ERR_INVALID_ARGUMENT
    /\ Len(conn.psk_list) >= 1
    /\ HasIdentity /\ ~HasSecret

\* C4 as claimed: for a PSK with an identity that is in no entry, a client's append
\* fails with S2N_ERR_OFFERED_PSKS_TOO_LONG exactly when the prospective size is over
\* 65535 and succeeds otherwise, and a server's append succeeds.
C4_Original ==
    [][(AppendStep /\ HasIdentity /\ ~IdentityInList)
          => IF conn.mode = S2N_CLIENT /\ ProspectiveSize > UINT16_MAX
             THEN result'.err = S2N_ERR_OFFERED_PSKS_TOO_LONG
             ELSE result'.err = S2N_ERR_OK]_vars

\* C4 amended: the same for a PSK that has an identity and a secret; on success the
\* list is one entry longer.
C4_SizeGuard ==
    [][(AppendStep /\ HasIdentity /\ HasSecret /\ ~IdentityInList)
          => IF conn.mode = S2N_CLIENT /\ ProspectiveSize > UINT16_MAX
             THEN result'.err = S2N_ERR_OFFERED_PSKS_TOO_LONG
             ELSE /\ result'.err = S2N_ERR_OK
                  /\ Len(conn'.psk_list) = Len(conn.psk_list) + 1]_vars

\* A client's append was refused at one byte over the limit.
C4_Witness ==
    /\ result.call = "s2n_connection_append_psk"
    /\ result.err = S2N_ERR_OFFERED_PSKS_TOO_LONG
    /\ HasIdentity /\ HasSecret
    /\ ProspectiveSize = UINT16_MAX + 1

\* C5: for every PSK list s2n_psk_parameters_offered_psks_size returns 2 + 2 + the
\* sum over the entries of 2 + identity length + 4 + 1 + digest size of the entry's
\* algorithm, and 4 for the empty list.
C5_SizeFormula ==
    /\ s2n_psk_parameters_offered_psks_size(conn.psk_list)
           = [err |-> S2N_ERR_OK, size |-> ClosedFormSize(conn.psk_list)]
    /\ conn.psk_list = <<>> => s2n_psk_parameters_offered_psks_size(conn.psk_list).size = 4

\* A list of entries that differ in identity length and algorithm, longer than a
\* client's limit.
C5_Witness ==
    /\ Len(conn.psk_list) >= 2
    /\ conn.psk_list[1].hmac_alg # conn.psk_list[2].hmac_alg
    /\ conn.psk_list[1].identity.size # conn.psk_list[2].identity.size
    /\ ClosedFormSize(conn.psk_list) > UINT16_MAX

(***************************************************************************)
(* Clones (SpecClone).                                                     *)
(***************************************************************************)
CallerCalls ==
    {"s2n_external_psk_new", "s2n_psk_set_identity", "s2n_psk_set_secret",
     "s2n_psk_set_hmac", "s2n_psk_wipe", "s2n_psk_free"}

MemberCalls == {"s2n_psk_write_binder", "s2n_psk_parameters_wipe"}

\* C6: an append leaves the caller's PSK unchanged and stores a copy of it as the
\* last entry; no later call on the caller's PSK changes an entry of the list, and
\* no call on the entries changes the caller's PSK.
C6_DeepClone ==
    [][/\ AppendStep => PskView' = PskView
       /\ (AppendStep /\ result'.err = S2N_ERR_OK)
             => /\ Len(conn'.psk_list) = Len(conn.psk_list) + 1
                /\ ListView'[Len(conn'.psk_list)] = PskView
                /\ \A k \in 1 .. Len(conn.psk_list) : ListView'[k] = ListView[k]
       /\ result'.call \in CallerCalls => ListView' = ListView
       /\ result'.call \in MemberCalls => PskView' = PskView]_vars

\* The caller replaced the identity of its PSK, the entry cloned from it before
\* keeps the old one; both strings have one size.
C6_Witness ==
    /\ Len(conn.psk_list) >= 1
    /\ result.call = "s2n_psk_set_identity"
    /\ result.err = S2N_ERR_OK
    /\ psk.identity.size = conn.psk_list[1].identity.size
    /\ \A j \in 1 .. Len(conn.psk_list) :
          BytesOf(heap, conn.psk_list[j].identity) # BytesOf(heap, psk.identity)
    /\ \A j \in 1 .. Len(conn.psk_list) : View(heap, conn.psk_list[j].identity).used

\* The caller's PSK has an identity the last wipe released, and nothing has been
\* appended since.
IdentityWiped ==
    /\ HasIdentity
    /\ conn.psk_list = <<>>
    /\ \E w \in wiped : w.identity = BytesOf(heap, psk.identity)

\* C9 as claimed: after s2n_psk_parameters_wipe the list is empty, its size is 4,
\* the members' memory is released, and an append of a PSK with an identity that was
\* in the list succeeds.
C9_Original ==
    [][/\ result'.call = "s2n_psk_parameters_wipe"
             => /\ conn'.psk_list = <<>>
                /\ s2n_psk_parameters_offered_psks_size(conn'.psk_list).size = 4
                /\ UsedCells(heap') = UsedCells(heap) - MemberCells(conn.psk_list)
       /\ (AppendStep /\ IdentityWiped)
             => result'.err = S2N_ERR_OK]_vars

\* C9 amended: the append is never refused as a duplicate; it succeeds when the PSK
\* has a secret and, on a client, fits the limit alone, and fails as any append
\* to an empty list does otherwise.
C9_WipeThenAppend ==
    [][/\ result'.call = "s2n_psk_parameters_wipe"
             => /\ conn'.psk_list = <<>>
                /\ s2n_psk_parameters_offered_psks_size(conn'.psk_list)
                       = [err |-> S2N_ERR_OK, size |-> 4]
                /\ UsedCells(heap') = UsedCells(heap) - MemberCells(conn.psk_list)
       /\ (AppendStep /\ IdentityWiped)
             => /\ result'.err # S2N_ERR_DUPLICATE_PSK_IDENTITIES
                /\ result'.err =
                      (IF conn.mode = S2N_CLIENT /\ ProspectiveSize > UINT16_MAX
                       THEN S2N_ERR_OFFERED_PSKS_TOO_LONG
                       ELSE IF ~HasSecret THEN S2N_ERR_INVALID_ARGUMENT
                       ELSE S2N_ERR_OK)
                /\ result'.err = S2N_ERR_OK => Len(conn'.psk_list) = 1]_vars

\* A list whose member had an early secret was wiped; the PSK it was cloned from has
\* just been appended again.
C9_Witness ==
    /\ result.call = "s2n_connection_append_psk"
    /\ result.err = S2N_ERR_OK
    /\ Len(conn.psk_list) = 1
    /\ \E w \in wiped : /\ w.identity = BytesOf(heap, conn.psk_list[1].identity)
                        /\ w.early_secret > 0
    /\ HasSecret
    /\ UsedCells(heap) = 4

(***************************************************************************)
(* The PSK entity (SpecPsk).                                               *)
(***************************************************************************)
Setters == {"s2n_psk_set_identity", "s2n_psk_set_secret"}

EarlySecretFits(p) ==
    \/ p.early_secret.size = 0
    \/ p.early_secret.size = s2n_hmac_digest_size(p.hmac_alg).size

AllEarlySecretsFit ==
    /\ psk # NoPsk => EarlySecretFits(psk)
    /\ \A j \in 1 .. Len(conn.psk_list) : EarlySecretFits(conn.psk_list[j])

\* C8 as claimed: in every state the early secret of a PSK is empty or of the digest
\* size of the PSK's current algorithm.
C8_Original == AllEarlySecretsFit

\* C8 amended: every call but s2n_psk_set_hmac keeps it so, and a binder calculated
\* for a PSK makes it so for that PSK; the early secret is always empty or of the
\* digest size of one of the algorithms.
C8_EarlySecretSize ==
    [][/\ (AllEarlySecretsFit /\ result'.call # "s2n_psk_set_hmac") => AllEarlySecretsFit'
       /\ (result'.call = "s2n_psk_calculate_binder" /\ result'.err = S2N_ERR_OK)
             => /\ EarlySecretFits(psk')
                /\ psk'.early_secret.size > 0
       /\ psk' # NoPsk => psk'.early_secret.size \in DigestSizes \cup {0}]_vars

\* A binder was calculated for a PSK under SHA-384 whose early secret had SHA-256's
\* size before.
C8_Witness ==
    /\ result.call = "s2n_psk_calculate_binder"
    /\ result.err = S2N_ERR_OK
    /\ psk.hmac_alg = S2N_HMAC_SHA384
    /\ psk.early_secret.size = SHA384_DIGEST_LENGTH
    /\ Len(conn.psk_list) = 1
    /\ conn.psk_list[1].early_secret.size = SHA256_DIGEST_LENGTH

(***************************************************************************)
(* The reader (SpecReader).                                                *)
(***************************************************************************)
\* The bytes left to read, and the identity size the next two of them declare.
Remaining == Len(offered_psk_list.wire_data.data) - offered_psk_list.wire_data.read_cursor

DeclaredSize ==
    (offered_psk_list.wire_data.data[offered_psk_list.wire_data.read_cursor + 1] * 256)
        + offered_psk_list.wire_data.data[offered_psk_list.wire_data.read_cursor + 2]

\* The next entry is malformed: no room for the size, a size of 0, an identity
\* longer than what remains, or no room for the obfuscated ticket age.
Malformed ==
    \/ Remaining < 2
    \/ DeclaredSize = 0
    \/ DeclaredSize > Remaining - 2
    \/ Remaining - 2 - DeclaredSize < 4

\* C10: s2n_offered_psk_list_next fails with S2N_ERR_STUFFER_OUT_OF_DATA when no
\* bytes remain, with S2N_ERR_BAD_MESSAGE when bytes remain and the entry is
\* malformed, and succeeds otherwise; when it fails the caller's struct is zero.
C10_NextErrors ==
    [][result'.call = "s2n_offered_psk_list_next"
          => /\ result'.err = (IF Remaining = 0 THEN S2N_ERR_STUFFER_OUT_OF_DATA
                               ELSE IF Malformed THEN S2N_ERR_BAD_MESSAGE
                               ELSE S2N_ERR_OK)
             /\ result'.err # S2N_ERR_OK => offered_psk' = ZeroOfferedPsk
             /\ Remaining = 0 => offered_psk_list' = offered_psk_list]_vars

\* An entry was read, and the next read found a single byte left.
C10_Witness ==
    /\ result.call = "s2n_offered_psk_list_next"
    /\ result.err = S2N_ERR_BAD_MESSAGE
    /\ offered_psk_list.wire_data.read_cursor >= 7
    /\ Len(offered_psk_list.wire_data.data) = offered_psk_list.wire_data.read_cursor + 1

(***************************************************************************)
(* Well-formed offered identity lists (SpecEntries).                       *)
(***************************************************************************)
\* The bytes of the wire data an identity points to.
IdentityBytes(l, identity) ==
    SubSeq(l.wire_data.data, identity.data, identity.data + identity.size - 1)

\* The identities that were encoded into the wire data.
Offered(l) == CHOOSE ids \in OfferedIdentities : Encode(ids) = l.wire_data.data

\* C11: over wire data that encodes N well-formed entries, the calls of
\* s2n_offered_psk_list_next made since the start (or since a reset, at any point)
\* have returned the first identities of the list, in order and with the bytes that
\* were encoded; there is a next entry exactly while fewer than N were returned, so
\* that next succeeds N times and fails only after them.
C11_RoundTrip ==
    /\ Len(entries) <= Len(Offered(offered_psk_list))
    /\ \A k \in 1 .. Len(entries) :
          IdentityBytes(offered_psk_list, entries[k]) = Offered(offered_psk_list)[k]
    /\ s2n_offered_psk_list_has_next(offered_psk_list)
          <=> Len(entries) < Len(Offered(offered_psk_list))
    /\ (result.call = "s2n_offered_psk_list_next" /\ result.err # S2N_ERR_OK)
          => Len(entries) = Len(Offered(offered_psk_list))

\* A list of two entries of different sizes read to its end.
C11_Witness ==
    /\ Len(entries) = 2
    /\ entries[1].size # entries[2].size
    /\ ~s2n_offered_psk_list_has_next(offered_psk_list)
    /\ result.call = "s2n_offered_psk_list_next"
    /\ result.err = S2N_ERR_OK
    /\ offered_psk.identity = entries[2]

\* C12: whatever the position of the caller's list, s2n_offered_psk_list_get_index
\* with an index below the number of entries succeeds and returns the identity of
\* that entry, the one the sequential call of that rank returned or will return
\* from the start; with an index past the entries it fails; in both cases the
\* caller's list, its read cursor included, is as it was.
C12_GetIndex ==
    [][result'.call = "s2n_offered_psk_list_get_index" =>
        /\ offered_psk_list' = offered_psk_list
        /\ IF result'.arg.psk_index < Len(Offered(offered_psk_list))
           THEN /\ result'.err = S2N_ERR_OK
                /\ IdentityBytes(offered_psk_list, offered_psk'.identity)
                      = Offered(offered_psk_list)[result'.arg.psk_index + 1]
                /\ result'.arg.psk_index < Len(entries)
                      => offered_psk'.identity = entries[result'.arg.psk_index + 1]
           ELSE result'.err # S2N_ERR_OK]_vars

\* The second entry was asked for while the list stood after its first entry, and
\* the list stands there still.
C12_Witness ==
    /\ result.call = "s2n_offered_psk_list_get_index"
    /\ result.arg.psk_index = 1
    /\ result.err = S2N_ERR_OK
    /\ Len(entries) = 1
    /\ offered_psk.identity # entries[1]
    /\ s2n_offered_psk_list_has_next(offered_psk_list)

(***************************************************************************)
(* Binders (SpecBinder).                                                   *)
(***************************************************************************)
\* The digest size of the caller's PSK.
PskDigestSize == s2n_hmac_digest_size(psk.hmac_alg).size

\* C13: over one transcript and one partial ClientHello, s2n_psk_verify_binder
\* succeeds on the binder s2n_psk_calculate_binder gives for the PSK, and fails on
\* every candidate that differs from it in some byte and on every candidate whose
\* size is not the digest size of the PSK's algorithm.
C13_VerifyBinder ==
    [][result'.call = "s2n_psk_verify_binder" =>
        (result'.err = S2N_ERR_OK
            <=> result'.arg.size = PskDigestSize /\ result'.arg.flipped = {})]_vars

\* The binder of a SHA-384 PSK with a secret was verified in a retry.
C13_Witness ==
    /\ result.call = "s2n_psk_verify_binder"
    /\ result.err = S2N_ERR_OK
    /\ result.arg.size = SHA384_DIGEST_LENGTH
    /\ psk.secret.size > 0
    /\ handshake.retry

\* C14: s2n_psk_calculate_binder_hash, and s2n_psk_verify_binder which calls it,
\* leave the transcript hash states of the connection as they were, whether they
\* succeed or fail.
C14_TranscriptKept ==
    [][result'.call \in {"s2n_psk_calculate_binder_hash", "s2n_psk_verify_binder"}
        => handshake'.hashes = handshake.hashes]_vars

\* A binder hash was calculated over a transcript that is not empty.
C14_Witness ==
    /\ result.call = "s2n_psk_calculate_binder_hash"
    /\ result.err = S2N_ERR_OK
    /\ result.binder_hash.val[3] =
          Append(handshake.hashes[S2N_HASH_SHA384], PartialClientHello(100, 96))
    /\ handshake.hashes[S2N_HASH_SHA384] # <<>>

NotSkipped(psk_list) ==
    SelectSeq(psk_list, LAMBDA p : ~handshake.retry \/ handshake.prf_alg = p.hmac_alg)

\* s2n_finish_psk_extension has written a binder list in the step.
BinderListWritten ==
    /\ result'.call = "s2n_finish_psk_extension"
    /\ conn.binder_list_size # 0

\* The partial ClientHello of the step: all that was written but the space of the
\* binder list, under a header finished while that space was there.
HashedClientHello ==
    PartialClientHello(handshake.io.written - conn.binder_list_size,
                       handshake.io.written - TLS_HANDSHAKE_HEADER_LENGTH)

\* C16: in one run of the binder list writer s2n_psk_calculate_binder_hash is called
\* at most once for an HMAC algorithm, and exactly for the algorithms of the PSKs
\* that are not skipped: as many times as there are distinct algorithms among them.
C16_HashOncePerAlgorithm ==
    [][BinderListWritten =>
        /\ \A i, j \in DOMAIN result'.hashed :
              i # j => result'.hashed[i] # result'.hashed[j]
        /\ {result'.hashed[i] : i \in DOMAIN result'.hashed}
              = {NotSkipped(conn.psk_list)[k].hmac_alg :
                    k \in DOMAIN NotSkipped(conn.psk_list)}]_vars

\* Two PSKs of one algorithm got their binders from one binder hash.
C16_Witness ==
    /\ result.call = "s2n_finish_psk_extension"
    /\ result.err = S2N_ERR_OK
    /\ Len(handshake.io.binders) = 2
    /\ Len(result.hashed) = 1

\* C17: the writer emits one binder for each PSK that is not skipped, in the order of
\* the list, each as one byte holding the digest size of the PSK's algorithm and the
\* binder of that PSK over the partial ClientHello; a PSK is skipped exactly when the
\* handshake is a retry and its algorithm is not the PRF algorithm of the cipher
\* suite, so that outside a retry every PSK has its binder.
C17_BindersInOrder ==
    [][BinderListWritten =>
        /\ result'.err = S2N_ERR_OK
        /\ Len(handshake'.io.binders) = Len(NotSkipped(conn.psk_list))
        /\ ~handshake.retry => Len(handshake'.io.binders) = Len(conn.psk_list)
        /\ \A k \in DOMAIN NotSkipped(conn.psk_list) :
              /\ handshake'.io.binders[k].size
                    = s2n_hmac_digest_size(NotSkipped(conn.psk_list)[k].hmac_alg).size
              /\ handshake'.io.binders[k].binder
                    = ExpectedBinder(heap, handshake.hashes,
                                     NotSkipped(conn.psk_list)[k], HashedClientHello)
        /\ handshake'.io.written
              = (handshake.io.written - conn.binder_list_size) + 2
                  + BindersSize(NotSkipped(conn.psk_list))]_vars

\* In a retry the first PSK of two was skipped and the second got its binder.
C17_Witness ==
    /\ result.call = "s2n_finish_psk_extension"
    /\ result.err = S2N_ERR_OK
    /\ handshake.retry
    /\ Len(conn.psk_list) = 2
    /\ conn.psk_list[1].hmac_alg # handshake.prf_alg
    /\ conn.psk_list[1].early_secret.size = 0
    /\ Len(handshake.io.binders) = 1
    /\ handshake.io.binders[1].binder[1] = conn.psk_list[2].hmac_alg

\* C18 as stated: when s2n_finish_psk_extension runs with a binder list size that is
\* not zero, the two bytes reserved for the length of the binder list are patched
\* first and the message length in the handshake header after that.
C18_Original ==
    [][BinderListWritten =>
        result'.patched = <<"binder_list_length", "message_length">>]_vars

\* C18, amended: when s2n_finish_psk_extension runs with a binder list size that is
\* not zero, the message length in the handshake header is patched first, so that
\* the partial ClientHello that is hashed carries it, and the two bytes reserved for
\* the length of the binder list are patched after that, once the binders are
\* written.
C18_HeaderThenBinderList ==
    [][BinderListWritten =>
        /\ result'.patched = <<"message_length", "binder_list_length">>
        /\ handshake'.io.message_length
              = handshake.io.written - TLS_HANDSHAKE_HEADER_LENGTH
        /\ handshake'.io.binder_list_length = BindersSize(NotSkipped(conn.psk_list))
        /\ \A k \in DOMAIN handshake'.io.binders :
              handshake'.io.binders[k].binder[4][3]
                = Append(handshake.hashes[handshake'.io.binders[k].binder[4][2]],
                         HashedClientHello)]_vars

\* The extension of a ClientHello with two binders was finished: its header holds
\* the length of the message and the binder list its own.
C18_Witness ==
    /\ result.call = "s2n_finish_psk_extension"
    /\ result.err = S2N_ERR_OK
    /\ Len(result.patched) = 2
    /\ Len(handshake.io.binders) = 2
    /\ handshake.io.message_length
          = handshake.io.written - TLS_HANDSHAKE_HEADER_LENGTH
    /\ handshake.io.binder_list_length = conn.binder_list_size - 2

(***************************************************************************)
(* Key buffers (SpecBinder).                                               *)
(***************************************************************************)
\* C19: when s2n_psk_calculate_binder or s2n_psk_verify_binder returns, by whatever
\* path, neither the buffer of the binder key nor that of the finished key holds
\* a secret.
C19_KeysZeroed ==
    result.call \in {"s2n_psk_calculate_binder", "s2n_psk_verify_binder"}
        => /\ result.keys.derive_secret # "secret"
           /\ result.keys.finished_key # "secret"

(***************************************************************************)
(* The size of a client's list (SpecList).                                 *)
(***************************************************************************)
\* C20: in every state a client connection reaches by appends and wipes of its list,
\* the offered size of the list plus the extension header is at most 65535; and
\* the sum the guard of an append would form with the caller's PSK, in 32 bits and
\* unchecked, is the sum of the three numbers: it does not wrap.
C20_ClientListFits ==
    conn.mode = S2N_CLIENT =>
        /\ s2n_psk_parameters_offered_psks_size(conn.psk_list).err = S2N_ERR_OK
        /\ s2n_psk_parameters_offered_psks_size(conn.psk_list).size
              + S2N_EXTENSION_HEADER_LENGTH <= UINT16_MAX
        /\ ClosedFormSize(conn.psk_list) + S2N_EXTENSION_HEADER_LENGTH <= UINT16_MAX
        /\ psk # NoPsk =>
              /\ ~uint32_carry(ClosedFormSize(conn.psk_list), EntryWireSize(psk))
              /\ uint32_add(uint32_add(ClosedFormSize(conn.psk_list), EntryWireSize(psk)),
                            S2N_EXTENSION_HEADER_LENGTH)
                    = ProspectiveSize

\* A client's list that fills the extension to the last byte has refused one more
\* PSK.
C20_Witness ==
    /\ conn.mode = S2N_CLIENT
    /\ Len(conn.psk_list) = 1
    /\ ClosedFormSize(conn.psk_list) + S2N_EXTENSION_HEADER_LENGTH = UINT16_MAX
    /\ result.call = "s2n_connection_append_psk"
    /\ result.err = S2N_ERR_OFFERED_PSKS_TOO_LONG
    /\ ProspectiveSize > UINT16_MAX

\* How far the loop in progress has moved its cursor: the caller's list since the
\* loop began, or the copy that s2n_offered_psk_list_get_index reset.
LoopCursor ==
    IF frame.pc = "read_loop" THEN offered_psk_list.wire_data.read_cursor - frame.start
    ELSE IF frame.pc = "get_index" THEN frame.psk_list_copy.wire_data.read_cursor
    ELSE 0

LoopData ==
    IF frame.pc = "get_index" THEN frame.psk_list_copy.wire_data.data
    ELSE offered_psk_list.wire_data.data

\* A loop goes on only after a successful s2n_offered_psk_list_next, which has moved
\* the cursor by seven bytes or more.
LoopAdvances ==
    (frame.pc # "none" /\ frame'.pc = frame.pc) => LoopCursor' >= LoopCursor + 7

\* The successful calls of a loop are bounded by the data behind its cursor, and
\* the 16-bit count of get_index is their number as long as the wire data is too
\* short for 65536 entries.
LoopBound ==
    frame.pc # "none" =>
        /\ 7 * frame.iterations <= LoopCursor
        /\ LoopCursor <= Len(LoopData)
        /\ (frame.pc = "get_index" /\ Len(LoopData) < 7 * UINT16_MOD)
               => frame.count = frame.iterations

\* The loop of get_index returns what the call returns, and for the index 65535
\* that is the failure of s2n_offered_psk_list_next.
GetIndexReturns ==
    (frame.pc = "get_index" /\ frame' = NoFrame) =>
        /\ result'.call = "s2n_offered_psk_list_get_index"
        /\ result'.arg.psk_index = frame.psk_index
        /\ result'.err = s2n_offered_psk_list_get_index(
                             offered_psk_list, frame.psk_index, offered_psk).err
        /\ offered_psk' = s2n_offered_psk_list_get_index(
                              offered_psk_list, frame.psk_index, offered_psk).psk
        /\ offered_psk_list' = offered_psk_list
        /\ frame.psk_index = UINT16_MAX
               => result'.err \in {S2N_ERR_STUFFER_OUT_OF_DATA, S2N_ERR_BAD_MESSAGE}

\* C21: reading always terminates.  Every successful s2n_offered_psk_list_next
\* advances the cursor by at least 7 bytes, so a caller's loop 'while has_next: next'
\* ends after finitely many steps, by exhausting the data or by a failure, and
\* s2n_offered_psk_list_get_index returns for every 16-bit index, 65535 included:
\* there count <= psk_index never fails, and the call ends with the OutOfData or
\* BadMessage of next before its 16-bit count wraps.
C21_ReadingTerminates ==
    /\ [][LoopAdvances]_vars
    /\ []LoopBound
    /\ [][GetIndexReturns]_vars
    /\ (frame # NoFrame) ~> (frame = NoFrame)

\* A caller's loop has read the two entries of a list to its end, and get_index of
\* 65535 over the same list has then returned the OutOfData of its third next.
C21_Witness ==
    /\ frame = NoFrame
    /\ Len(entries) = 2
    /\ ~s2n_offered_psk_list_has_next(offered_psk_list)
    /\ result.call = "s2n_offered_psk_list_get_index"
    /\ result.arg.psk_index = UINT16_MAX
    /\ result.err = S2N_ERR_STUFFER_OUT_OF_DATA

====
